---- MODULE Spec2Model ----
(***************************************************************************)
(* The OAuth 2.1 authorization bridge of the QuickBooks MCP server          *)
(* (stateless-token variant, auth/oauth-server) and the /mcp endpoint of     *)
(* index.ts, as a state machine.                                            *)
(*                                                                         *)
(* Every HTTP handler is one action per synchronous run of its code: Node   *)
(* runs a handler without interruption up to its next await, so a handler   *)
(* with an await is split there and nowhere else.  A handler is a pure       *)
(* operator from the request and the stores to the response and the stores  *)
(* after it (...Outcome), which its action applies.                         *)
(*                                                                         *)
(* JavaScript values: strings are strings; undefined is the value           *)
(* Undefined; `!x` is Falsy(x).  Times are kept in seconds: every duration  *)
(* of the code is a whole number of seconds multiplied by 1000 and the      *)
(* clock is sampled at whole seconds, so `Date.now() > expires_at` compares *)
(* exactly as the two values divided by 1000 do.                            *)
(***************************************************************************)
EXTENDS Integers, Sequences, FiniteSets, Bags, TLC

\* Bounds of the model.
MaxClients == 2
MaxAuthorize == 1
MaxMcp == 2
MaxRefresh == 2
MaxAwaiting == 2

\* Program constants.
TOKEN_EXPIRY_SECONDS == 3600
AUTH_CODE_EXPIRY_SECONDS == 600
REFRESH_EXPIRY_DAYS == 90

Undefined == "<undefined>"

Falsy(x) == x = Undefined \/ x = ""

OrElse(a, b) == IF Falsy(a) THEN b ELSE a

EmptyMap == [k \in {} |-> Undefined]

Remove(m, k) == [x \in DOMAIN m \ {k} |-> m[x]]

Put(m, k, v) == [x \in DOMAIN m \cup {k} |-> IF x = k THEN v ELSE m[x]]

---------------------------------------------------------------------------
\* The values requests are drawn from.

LoopbackUri == "http://localhost:4000/cb"
HttpsUri == "https://app.example.com/cb"
PlainHttpUri == "http://example.com/cb"
MalformedUri == "not a url"
FtpLoopbackUri == "ftp://127.0.0.1/cb"

\* new URL(uri): its protocol and hostname, or a throw (ok = FALSE).
ParseURL(uri) ==
  CASE uri = LoopbackUri -> [ok |-> TRUE, protocol |-> "http:", hostname |-> "localhost"]
    [] uri = HttpsUri -> [ok |-> TRUE, protocol |-> "https:", hostname |-> "app.example.com"]
    [] uri = PlainHttpUri -> [ok |-> TRUE, protocol |-> "http:", hostname |-> "example.com"]
    [] uri = FtpLoopbackUri -> [ok |-> TRUE, protocol |-> "ftp:", hostname |-> "127.0.0.1"]
    [] OTHER -> [ok |-> FALSE, protocol |-> "", hostname |-> ""]

\* crypto.createHash("sha256").update(v).digest("base64url") on the verifiers
\* of the model: injective (collision resistance) and never the identity.
Sha256Base64Url(v) ==
  CASE v = "verifier-1" -> "hash-1"
    [] v = "verifier-2" -> "hash-2"
    [] v = "hash-1" -> "hash-of-hash-1"
    [] OTHER -> "hash-of-other"

\* uuidv4() and generateSecureToken(): the n-th value drawn, fresh by the
\* unpredictability of crypto.randomBytes (ClientIdRepeated: a draw that repeats).
ClientIdRepeated(n) == "client-1"
ClientId(n) == "client-" \o ToString(n)
ClientSecret(n) == "secret-" \o ToString(n)
InternalState(n) == "state-" \o ToString(n)
AuthCode(n) == "code-" \o ToString(n)

\* A check that knows the two methods of the protocol and refuses the others.
verifyCodeChallengeKnownOnly(codeVerifier, codeChallenge, method) ==
  IF method = "plain" THEN codeVerifier = codeChallenge
  ELSE method = "S256" /\ Sha256Base64Url(codeVerifier) = codeChallenge

\* A check that lets every verifier through.
verifyCodeChallengeAny(codeVerifier, codeChallenge, method) == TRUE

\* A check that compares the verifier with the challenge whatever the method.
verifyCodeChallengePlainOnly(codeVerifier, codeChallenge, method) ==
  codeVerifier = codeChallenge

verifyCodeChallenge(codeVerifier, codeChallenge, method) ==
  IF method = "plain"
    THEN codeVerifier = codeChallenge
    ELSE Sha256Base64Url(codeVerifier) = codeChallenge

---------------------------------------------------------------------------
\* Responses.

Json(status, error, description) ==
  [kind |-> "json", status |-> status, error |-> error, description |-> description]

Text(status, text) ==
  [kind |-> "text", status |-> status, error |-> Undefined, description |-> text]

\* res.redirect(url): url is the client's redirect URI with the search
\* parameters set on it (a parameter never set is Undefined).
ClientRedirect(uri, code, error, description, state) ==
  [kind |-> "redirect", status |-> 302, to |-> uri, code |-> code, error |-> error,
   description |-> description, state |-> state]

\* res.redirect(qbClient.authorizeUri({scope, state})).
UpstreamRedirect(state) ==
  [kind |-> "redirect", status |-> 302, to |-> "upstream", code |-> Undefined,
   error |-> Undefined, description |-> Undefined, state |-> state]

\* No response: the handler goes on.
Pass == [kind |-> "pass"]

---------------------------------------------------------------------------
VARIABLES
  registeredClients,      \* client_id -> OAuthClientRegistration
  pendingAuthorizations,  \* internal state -> pending authorization
  authorizationCodes,     \* code -> AuthorizationCode
  now,                    \* Date.now(), in seconds
  inflight,               \* bag of /callback requests waiting in `await createToken`
  nStates,                \* internal states generated so far
  nCodes,                 \* authorization codes generated so far
  flows,                  \* history: internal state -> its /authorize request,
                          \*   kept while the flow has an entry, a waiting
                          \*   callback or a stored code
  origin,                 \* history: stored code -> the internal state it was minted for
  consumed,               \* history: internal state -> callbacks that found its entry
  minted,                 \* history: internal state -> codes minted for it
  redeemed,               \* history: code -> number of 200 token responses
  currentQBInstance,      \* index.ts: the module-level QuickBooks instance
  mcp,                    \* /mcp requests: request -> its position and locals
  handedOut,              \* history: the tokens the refresh_token grant handed out
  grants,                 \* history: refresh token -> number of 200 answers to
                          \*   refresh_token requests that presented it
  memAccessTokens,        \* in-memory variant: accessTokens, token -> TokenData
  memRefreshTokens,       \* in-memory variant: refreshTokens, token -> TokenData
  memDrawn,               \* in-memory variant: tokens generated so far
  memAwaiting,            \* in-memory variant: refresh_token requests waiting in
                          \*   `await refreshUsingToken`, request -> its locals
  memGranted              \* history: refresh token -> the 200 answers given to
                          \*   requests presenting it, and its access token

storeVars == <<registeredClients, pendingAuthorizations, authorizationCodes, now,
               inflight, nStates, nCodes>>
historyVars == <<flows, origin, consumed, minted, redeemed>>
mcpVars == <<currentQBInstance, mcp>>
refreshVars == <<handedOut, grants>>
memoryVars == <<memAccessTokens, memRefreshTokens, memDrawn, memAwaiting, memGranted>>
vars == <<storeVars, historyVars, mcpVars, refreshVars, memoryVars>>

\* `currentQBInstance = null`
NoInstance == [id |-> 0]

Init ==
  /\ registeredClients = EmptyMap
  /\ pendingAuthorizations = EmptyMap
  /\ authorizationCodes = EmptyMap
  /\ now = 0
  /\ inflight = EmptyBag
  /\ nStates = 0
  /\ nCodes = 0
  /\ flows = EmptyMap
  /\ origin = EmptyMap
  /\ consumed = EmptyMap
  /\ minted = EmptyMap
  /\ redeemed = EmptyMap
  /\ currentQBInstance = NoInstance
  /\ mcp = EmptyMap
  /\ handedOut = {}
  /\ grants = EmptyMap
  /\ memAccessTokens = EmptyMap
  /\ memRefreshTokens = EmptyMap
  /\ memDrawn = 0
  /\ memAwaiting = EmptyMap
  /\ memGranted = EmptyMap

---------------------------------------------------------------------------
\* POST /register

\* req.body.redirect_uris: an array (isArray, items) or anything else.
RedirectUriInputs ==
  {[isArray |-> FALSE, items |-> <<>>],
   [isArray |-> TRUE, items |-> <<>>],
   [isArray |-> TRUE, items |-> <<LoopbackUri>>],
   [isArray |-> TRUE, items |-> <<HttpsUri, LoopbackUri>>],
   [isArray |-> TRUE, items |-> <<PlainHttpUri>>],
   [isArray |-> TRUE, items |-> <<MalformedUri>>],
   [isArray |-> TRUE, items |-> <<LoopbackUri, PlainHttpUri>>],
   [isArray |-> TRUE, items |-> <<HttpsUri, MalformedUri>>]}

AuthMethodInputs == {Undefined, "none", "client_secret_post"}

\* The bodies of the model: the two-URI lists come with a client secret method,
\* the others without.
RegisterRequests ==
  {r \in [redirect_uris : RedirectUriInputs, token_endpoint_auth_method : AuthMethodInputs] :
     (Len(r.redirect_uris.items) = 2) = (r.token_endpoint_auth_method = "client_secret_post")}

\* Every body of one or two URIs, with every method.
UriInputs == {LoopbackUri, HttpsUri, PlainHttpUri, MalformedUri, FtpLoopbackUri}

AnyRegisterRequests ==
  [redirect_uris : {[isArray |-> FALSE, items |-> <<>>], [isArray |-> TRUE, items |-> <<>>]}
                   \cup {[isArray |-> TRUE, items |-> <<u>>] : u \in UriInputs}
                   \cup {[isArray |-> TRUE, items |-> <<u, v>>] : u, v \in UriInputs},
   token_endpoint_auth_method : AuthMethodInputs]

\* A loop that lets HTTPS URLs through only.
RedirectUriAllowedHttpsOnly(uri) ==
  LET url == ParseURL(uri)
  IN url.ok /\ url.protocol = "https:"

\* The verdict of the loop over redirect_uris on one URI.
RedirectUriAllowed(uri) ==
  LET url == ParseURL(uri)
      isLocalhost == url.hostname = "localhost" \/ url.hostname = "127.0.0.1"
      isHttps == url.protocol = "https:"
  IN url.ok /\ (isLocalhost \/ isHttps)

\* A registration that always issues a secret.
ClientSecretForAlways(method, n) == ClientSecret(n)

\* A registration that issues a secret unless a method is named.
ClientSecretForDefault(method, n) ==
  IF method = "none" THEN ClientSecret(n) ELSE Undefined

ClientSecretFor(method, n) ==
  IF method # "none" THEN ClientSecret(n) ELSE Undefined

\* A test that lets the empty list through.
RedirectUrisMissingNotArrayOnly(uris) == ~uris.isArray

\* `!redirect_uris || !Array.isArray(redirect_uris) || redirect_uris.length === 0`
RedirectUrisMissing(uris) == ~uris.isArray \/ Len(uris.items) = 0

\* The handler on body `req` with the registry `clients`: the response and the
\* registry after it.
RegisterOutcome(req, clients) ==
  LET uris == req.redirect_uris
      method == IF req.token_endpoint_auth_method = Undefined
                  THEN "none" ELSE req.token_endpoint_auth_method
      n == Cardinality(DOMAIN clients) + 1
      clientId == ClientId(n)
      clientSecret == ClientSecretFor(method, n)
  IN IF RedirectUrisMissing(uris)
       THEN [clients |-> clients,
             resp |-> Json(400, "invalid_client_metadata",
                           "redirect_uris is required and must be a non-empty array")]
     ELSE IF \E i \in 1..Len(uris.items) : ~RedirectUriAllowed(uris.items[i])
       THEN [clients |-> clients,
             resp |-> Json(400, "invalid_redirect_uri",
                           LET i == CHOOSE j \in 1..Len(uris.items) :
                                      /\ ~RedirectUriAllowed(uris.items[j])
                                      /\ \A k \in 1..(j - 1) : RedirectUriAllowed(uris.items[k])
                           IN IF ParseURL(uris.items[i]).ok
                                THEN "Redirect URIs must be localhost URLs or HTTPS URLs"
                                ELSE "Invalid redirect URI: " \o uris.items[i])]
     ELSE [clients |-> Put(clients, clientId,
                           [client_id |-> clientId,
                            client_secret |-> clientSecret,
                            redirect_uris |-> uris.items,
                            token_endpoint_auth_method |-> method]),
           resp |-> [kind |-> "json", status |-> 201, error |-> Undefined,
                     description |-> Undefined, client_id |-> clientId,
                     client_secret |-> clientSecret, redirect_uris |-> uris.items,
                     token_endpoint_auth_method |-> method]]

\* What the requests leave behind.  Requests with the same effect are one step.
RegisterEffects ==
  {RegisterOutcome(req, registeredClients).clients : req \in RegisterRequests}

Register ==
  /\ Cardinality(DOMAIN registeredClients) < MaxClients
  /\ \E clients \in RegisterEffects : registeredClients' = clients
  /\ UNCHANGED <<pendingAuthorizations, authorizationCodes, now, inflight, nStates,
                 nCodes, flows, origin, consumed, minted, redeemed, mcpVars, refreshVars, memoryVars>>

\* POST /register on any of the bodies.
RegisterAny ==
  /\ Cardinality(DOMAIN registeredClients) < MaxClients
  /\ \E req \in AnyRegisterRequests :
       registeredClients' = RegisterOutcome(req, registeredClients).clients
  /\ UNCHANGED <<pendingAuthorizations, authorizationCodes, now, inflight, nStates,
                 nCodes, flows, origin, consumed, minted, redeemed, mcpVars, refreshVars, memoryVars>>

---------------------------------------------------------------------------
\* GET /authorize

\* state, code_challenge, code_challenge_method and scope of a request.  The
\* first one carries, as the client's state, the internal state generated
\* last, once there is one.
AuthorizeParamInputs ==
  {[state |-> IF nStates > 0 THEN InternalState(nStates) ELSE "client-state",
    code_challenge |-> "hash-1",
    code_challenge_method |-> Undefined, scope |-> "quickbooks:accounting"],
   [state |-> Undefined, code_challenge |-> "verifier-1",
    code_challenge_method |-> "plain", scope |-> Undefined],
   [state |-> "client-state", code_challenge |-> Undefined,
    code_challenge_method |-> Undefined, scope |-> Undefined],
   [state |-> Undefined, code_challenge |-> Undefined,
    code_challenge_method |-> "plain", scope |-> "quickbooks:accounting"]}

AuthorizeRequests ==
  {[response_type |-> rt, client_id |-> cid, redirect_uri |-> ru, state |-> p.state,
    code_challenge |-> p.code_challenge,
    code_challenge_method |-> p.code_challenge_method, scope |-> p.scope] :
     rt \in {"code", "token"},
     cid \in {Undefined, "unknown-client"} \cup DOMAIN registeredClients,
     ru \in {Undefined, LoopbackUri, HttpsUri},
     p \in AuthorizeParamInputs}

Includes(seq, x) == \E i \in 1..Len(seq) : seq[i] = x

\* A check that only asks for a redirect_uri to be there.
RedirectUriUnregisteredMissingOnly(client, redirect_uri) == Falsy(redirect_uri)

\* `!redirect_uri || !client.redirect_uris.includes(redirect_uri)`
RedirectUriUnregistered(client, redirect_uri) ==
  Falsy(redirect_uri) \/ ~Includes(client.redirect_uris, redirect_uri)

\* A handler that does not insist on PKCE.
PkceMissingNever(code_challenge) == FALSE

\* `!code_challenge`: PKCE is required.
PkceMissing(code_challenge) == Falsy(code_challenge)

\* A handler that passes the client's state on to the upstream provider.
UpstreamStateClient(internalState, state) == state

\* The state parameter handed to qbClient.authorizeUri.
UpstreamState(internalState, state) == internalState

\* An entry that keeps the method of the request and loses its challenge.
PendingEntryNoChallenge(req) ==
  [client_id |-> req.client_id,
   redirect_uri |-> req.redirect_uri,
   state |-> req.state,
   code_challenge |-> Undefined,
   code_challenge_method |-> IF req.code_challenge_method = Undefined
                               THEN "S256" ELSE req.code_challenge_method,
   scope |-> req.scope]

\* The entry stored under the internal state.
PendingEntry(req) ==
  [client_id |-> req.client_id,
   redirect_uri |-> req.redirect_uri,
   state |-> req.state,
   code_challenge |-> req.code_challenge,
   code_challenge_method |-> IF req.code_challenge_method = Undefined
                               THEN "S256" ELSE req.code_challenge_method,
   scope |-> req.scope]

\* The validation of the handler, in its order: the rejection of `req`, or
\* Pass when the request passes.
AuthorizeRejection(req, clients) ==
  IF req.response_type # "code"
    THEN Json(400, "unsupported_response_type", "Only 'code' response type is supported")
  ELSE IF Falsy(req.client_id)
    THEN Json(400, "invalid_request", "client_id is required")
  ELSE IF req.client_id \notin DOMAIN clients
    THEN Json(400, "invalid_client", "Unknown client_id")
  ELSE IF RedirectUriUnregistered(clients[req.client_id], req.redirect_uri)
    THEN Json(400, "invalid_redirect_uri", "redirect_uri does not match registered URIs")
  ELSE IF PkceMissing(req.code_challenge)
    THEN ClientRedirect(req.redirect_uri, Undefined, "invalid_request",
                        "code_challenge is required (PKCE)",
                        IF Falsy(req.state) THEN Undefined ELSE req.state)
  ELSE Pass

\* The handler on `req`: the response and the pending store after it.
AuthorizeOutcome(req, clients, pending, n) ==
  LET rejection == AuthorizeRejection(req, clients)
      internalState == InternalState(n + 1)
  IN IF rejection # Pass
       THEN [ok |-> FALSE, pending |-> pending, resp |-> rejection]
       ELSE [ok |-> TRUE,
             pending |-> Put(pending, internalState, PendingEntry(req)),
             resp |-> UpstreamRedirect(UpstreamState(internalState, req.state))]

AuthorizeEffects ==
  {LET out == AuthorizeOutcome(req, registeredClients, pendingAuthorizations, nStates) IN
     [ok |-> out.ok, pending |-> out.pending,
      flows |-> IF out.ok THEN Put(flows, InternalState(nStates + 1), req) ELSE flows] :
   req \in AuthorizeRequests}

Authorize ==
  \E eff \in AuthorizeEffects :
      /\ eff.ok => nStates < MaxAuthorize
      /\ pendingAuthorizations' = eff.pending
      /\ nStates' = IF eff.ok THEN nStates + 1 ELSE nStates
      /\ flows' = eff.flows
      /\ consumed' = IF eff.ok THEN Put(consumed, InternalState(nStates + 1), 0) ELSE consumed
      /\ minted' = IF eff.ok THEN Put(minted, InternalState(nStates + 1), 0) ELSE minted
      /\ UNCHANGED <<registeredClients, authorizationCodes, now, inflight, nCodes,
                     origin, redeemed, mcpVars, refreshVars, memoryVars>>

\* The code_challenge_method values of a query string: none, the two the
\* protocol names, one the server does not know and 'plain' in another case.
MethodInputs == {Undefined, "S256", "plain", "S512", "Plain"}

\* The requests of the first registered client that pass the validation, with
\* every code_challenge_method: a 'plain' request carries its verifier as the
\* challenge, every other one the S256 challenge of verifier-1.
AnyMethodAuthorizeRequests ==
  {[response_type |-> "code", client_id |-> cid,
    redirect_uri |-> registeredClients[cid].redirect_uris[1], state |-> "client-state",
    code_challenge |-> IF method = "plain" THEN "verifier-1" ELSE "hash-1",
    code_challenge_method |-> method, scope |-> Undefined] :
     cid \in DOMAIN registeredClients \cap {ClientId(1)}, method \in MethodInputs}

\* The handler on the requests of every method.
AuthorizeAnyMethod ==
  \E req \in AnyMethodAuthorizeRequests :
    LET out == AuthorizeOutcome(req, registeredClients, pendingAuthorizations, nStates) IN
      /\ out.ok => nStates < MaxAuthorize
      /\ pendingAuthorizations' = out.pending
      /\ nStates' = IF out.ok THEN nStates + 1 ELSE nStates
      /\ flows' = IF out.ok THEN Put(flows, InternalState(nStates + 1), req) ELSE flows
      /\ consumed' = IF out.ok THEN Put(consumed, InternalState(nStates + 1), 0) ELSE consumed
      /\ minted' = IF out.ok THEN Put(minted, InternalState(nStates + 1), 0) ELSE minted
      /\ UNCHANGED <<registeredClients, authorizationCodes, now, inflight, nCodes,
                     origin, redeemed, mcpVars, refreshVars, memoryVars>>

---------------------------------------------------------------------------
\* GET /callback

\* The query strings of the model.  The upstream names the company in realmId.
CallbackRequests ==
  {[state |-> st, error |-> e[1], error_description |-> e[2], realmId |-> "realm-q"] :
     st \in {Undefined, "unknown-state"} \cup {InternalState(i) : i \in 1..nStates},
     e \in {<<Undefined, Undefined>>, <<"access_denied", Undefined>>,
            <<"access_denied", "The user denied access">>}}

\* What qbClient.createToken(req.url) resolves to, or its rejection (ok = FALSE).
UpstreamGrant ==
  [access_token |-> "qb-access-1", refresh_token |-> "qb-refresh-1", realmId |-> "realm-t"]

ExchangeResults == {[ok |-> FALSE, token |-> UpstreamGrant], [ok |-> TRUE, token |-> UpstreamGrant]}

\* A handler that forgets to delete the entry it found.
ConsumePendingKeep(pending, internalState) == pending

\* pendingAuthorizations.delete(internalState) after a successful lookup.
ConsumePending(pending, internalState) == Remove(pending, internalState)

\* A handler that sends the text without setting the status.
InvalidStateNoStatus == Text(200, "Invalid or expired authorization state")

\* res.status(400).send(...) for a state that keys no pending entry.
InvalidState == Text(400, "Invalid or expired authorization state")

\* A handler that ignores the error the upstream put on the query string.
ErrorSignalledNever(error) == FALSE

\* if (error)
ErrorSignalled(error) == ~Falsy(error)

\* The handler up to its await: the lookup, the delete and the forwarding of
\* an upstream error.  resp is Pass when the handler goes on to the exchange.
CallbackOutcome(req, pending) ==
  IF req.state \notin DOMAIN pending
    THEN [found |-> FALSE, pending |-> pending, resp |-> InvalidState]
    ELSE LET entry == pending[req.state] IN
      [found |-> TRUE,
       entry |-> entry,
       pending |-> ConsumePending(pending, req.state),
       resp |-> IF ErrorSignalled(req.error)
                  THEN ClientRedirect(entry.redirect_uri, Undefined, req.error,
                                      IF Falsy(req.error_description)
                                        THEN Undefined ELSE req.error_description,
                                      IF Falsy(entry.state) THEN Undefined ELSE entry.state)
                  ELSE Pass]

\* The locals of a handler waiting in its await.
Waiting(req, entry) == [key |-> req.state, pending |-> entry, realmId |-> req.realmId]

CallbackEffects ==
  {LET out == CallbackOutcome(req, pendingAuthorizations)
       waits == out.found /\ out.resp = Pass
   IN [pending |-> out.pending,
       consumed |-> IF out.found
                      THEN [consumed EXCEPT ![req.state] = @ + 1] ELSE consumed,
       inflight |-> IF waits
                      THEN inflight (+) SetToBag({Waiting(req, out.entry)})
                      ELSE inflight,
       flows |-> IF out.found /\ ~waits THEN Remove(flows, req.state) ELSE flows] :
   req \in CallbackRequests}

Callback ==
  \E eff \in CallbackEffects :
       /\ pendingAuthorizations' = eff.pending
       /\ consumed' = eff.consumed
       /\ inflight' = eff.inflight
       /\ flows' = eff.flows
       /\ UNCHANGED <<registeredClients, authorizationCodes, now, nStates, nCodes,
                      origin, minted, redeemed, mcpVars, refreshVars, memoryVars>>

\* An authorization code that loses the PKCE challenge of its pending entry.
AuthCodeDataNoChallenge(authCode, pending, realmId, qbTokens, t) ==
  [code |-> authCode,
   client_id |-> pending.client_id,
   redirect_uri |-> pending.redirect_uri,
   code_challenge |-> Undefined,
   code_challenge_method |-> pending.code_challenge_method,
   scope |-> pending.scope,
   expires_at |-> t + AUTH_CODE_EXPIRY_SECONDS,
   realm_id |-> OrElse(realmId, qbTokens.realmId),
   qb_access_token |-> qbTokens.access_token,
   qb_refresh_token |-> qbTokens.refresh_token]

\* authCodeData, built from the pending entry and the upstream tokens.
AuthCodeData(authCode, pending, realmId, qbTokens, t) ==
  [code |-> authCode,
   client_id |-> pending.client_id,
   redirect_uri |-> pending.redirect_uri,
   code_challenge |-> pending.code_challenge,
   code_challenge_method |-> pending.code_challenge_method,
   scope |-> pending.scope,
   expires_at |-> t + AUTH_CODE_EXPIRY_SECONDS,
   realm_id |-> OrElse(realmId, qbTokens.realmId),
   qb_access_token |-> qbTokens.access_token,
   qb_refresh_token |-> qbTokens.refresh_token]

\* A catch block that forgets the client's state.
ServerErrorNoState(redirectUri, state) ==
  ClientRedirect(redirectUri, Undefined, "server_error",
                 "Failed to complete QuickBooks authorization", Undefined)

\* The redirect of the catch block.
ServerError(redirectUri, state) ==
  ClientRedirect(redirectUri, Undefined, "server_error",
                 "Failed to complete QuickBooks authorization", state)

\* The handler after its await, for the waiting request f.
ExchangeOutcome(f, result, codes, n, t) ==
  LET authCode == AuthCode(n + 1)
      state == IF Falsy(f.pending.state) THEN Undefined ELSE f.pending.state
  IN IF result.ok
       THEN [minted |-> TRUE,
             codes |-> Put(codes, authCode,
                           AuthCodeData(authCode, f.pending, f.realmId, result.token, t)),
             resp |-> ClientRedirect(f.pending.redirect_uri, authCode, Undefined,
                                     Undefined, state)]
       ELSE [minted |-> FALSE,
             codes |-> codes,
             resp |-> ServerError(f.pending.redirect_uri, state)]

CallbackExchange ==
  \E f \in BagToSet(inflight), result \in ExchangeResults :
    LET out == ExchangeOutcome(f, result, authorizationCodes, nCodes, now) IN
      /\ inflight' = inflight (-) SetToBag({f})
      /\ authorizationCodes' = out.codes
      /\ nCodes' = IF out.minted THEN nCodes + 1 ELSE nCodes
      /\ origin' = IF out.minted THEN Put(origin, AuthCode(nCodes + 1), f.key) ELSE origin
      /\ minted' = IF out.minted THEN [minted EXCEPT ![f.key] = @ + 1] ELSE minted
      /\ redeemed' = IF out.minted THEN Put(redeemed, AuthCode(nCodes + 1), 0) ELSE redeemed
      /\ flows' = IF out.minted THEN flows ELSE Remove(flows, f.key)
      /\ UNCHANGED <<registeredClients, pendingAuthorizations, now, nStates, consumed,
                     mcpVars, refreshVars, memoryVars>>

---------------------------------------------------------------------------
\* The token codec

TOKEN_ENCRYPTION_KEY == "key-1"

\* JSON.stringify(payload): the text keeps the properties that are not
\* undefined, here as name-value pairs and the two numbers.
Stringify(payload) ==
  [strings |-> {<<f, payload[f]>> : f \in {g \in {"type", "client_id", "realm_id",
                                                   "qb_access_token", "qb_refresh_token"} :
                                             payload[g] # Undefined}},
   expires_at |-> payload.expires_at,
   issued_at |-> payload.issued_at]

\* JSON.parse(text), read as a StatelessTokenPayload: a property the text
\* lacks reads as undefined.
Parse(text) ==
  LET prop(name) == IF \E pair \in text.strings : pair[1] = name
                      THEN (CHOOSE pair \in text.strings : pair[1] = name)[2]
                      ELSE Undefined
  IN [type |-> prop("type"),
      client_id |-> prop("client_id"),
      realm_id |-> prop("realm_id"),
      qb_access_token |-> prop("qb_access_token"),
      qb_refresh_token |-> prop("qb_refresh_token"),
      expires_at |-> text.expires_at,
      issued_at |-> text.issued_at]

\* AES-256-GCM: the ciphertext of a text and the authentication tag of a
\* ciphertext, under a key and a nonce.  A ciphertext decrypts to its text
\* under its key and nonce only, and no other key, nonce or ciphertext gives
\* the same tag.
GcmCiphertext(key, iv, text) == [key |-> key, iv |-> iv, text |-> text]
GcmAuthTag(key, iv, ciphertext) == [key |-> key, iv |-> iv, of |-> ciphertext]

\* crypto.randomBytes(16): the nonce drawn.
Nonce == "iv-1"

\* base64url(iv + authTag + encrypted) of a payload under a key and a nonce;
\* `short` says that the token has fewer than 32 bytes.
Seal(payload, key, iv) ==
  LET encrypted == GcmCiphertext(key, iv, Stringify(payload)) IN
    [present |-> TRUE, short |-> FALSE, iv |-> iv,
     tag |-> GcmAuthTag(key, iv, encrypted), ct |-> encrypted]

encryptTokenPayload(payload) == Seal(payload, TOKEN_ENCRYPTION_KEY, Nonce)

\* The payload, or null (NoPayload) when the token does not open under the key.
NoPayload == [type |-> "null"]

\* A token parameter or header that is not there.
NoToken == [present |-> FALSE]

\* A decryption without the authentication tag (AES in counter mode only).
decryptTokenPayloadUnauthenticated(token) ==
  IF ~token.present \/ token.short THEN NoPayload
  ELSE IF token.ct.key # TOKEN_ENCRYPTION_KEY THEN NoPayload
  ELSE Parse(token.ct.text)

\* Every throw inside the try gives null: Buffer.from(undefined), a tag that
\* does not match in decipher.final(), a text JSON.parse does not accept.
decryptTokenPayload(token) ==
  IF ~token.present THEN NoPayload
  ELSE IF token.short THEN NoPayload
  ELSE IF token.tag # GcmAuthTag(TOKEN_ENCRYPTION_KEY, token.iv, token.ct) THEN NoPayload
  ELSE IF token.ct.key # TOKEN_ENCRYPTION_KEY \/ token.ct.iv # token.iv THEN NoPayload
  ELSE Parse(token.ct.text)

\* A payload that leaves the realm out.
StatelessTokenPayloadNoRealm(type, clientId, realmId, qbAccessToken, qbRefreshToken, t, lifetime) ==
  [type |-> type,
   client_id |-> clientId,
   realm_id |-> Undefined,
   qb_access_token |-> qbAccessToken,
   qb_refresh_token |-> qbRefreshToken,
   expires_at |-> t + lifetime,
   issued_at |-> t]

StatelessTokenPayload(type, clientId, realmId, qbAccessToken, qbRefreshToken, t, lifetime) ==
  [type |-> type,
   client_id |-> clientId,
   realm_id |-> realmId,
   qb_access_token |-> qbAccessToken,
   qb_refresh_token |-> qbRefreshToken,
   expires_at |-> t + lifetime,
   issued_at |-> t]

RefreshLifetime == REFRESH_EXPIRY_DAYS * 24 * 60 * 60

\* A check that takes a refresh token to expire the moment after its issue.
ExpiredOnceIssued(t, expires_at) == t > expires_at - RefreshLifetime

\* `Date.now() > expires_at`
Expired(t, expires_at) == t > expires_at

\* A caller that accepts a payload of either kind.
WrongKindNever(payload, type) == FALSE

\* `tokenPayload.type !== "refresh"` and `payload.type !== "access"`: the
\* caller's test of the kind of a payload that opened.
WrongKind(payload, type) == payload.type # type

---------------------------------------------------------------------------
\* POST /token

NoBasic == [present |-> FALSE, id |-> Undefined, secret |-> Undefined]

\* client_id and client_secret of the body and the Authorization header.
CredentialInputs(clients) ==
  {[client_id |-> cid, client_secret |-> Undefined, basic |-> NoBasic] :
     cid \in {Undefined, "unknown-client"}}
  \cup {[client_id |-> c, client_secret |-> sec, basic |-> NoBasic] :
          c \in DOMAIN clients, sec \in {Undefined, "wrong-secret"}}
  \cup {[client_id |-> c, client_secret |-> clients[c].client_secret, basic |-> NoBasic] :
          c \in DOMAIN clients}
  \cup {[client_id |-> Undefined, client_secret |-> Undefined,
         basic |-> [present |-> TRUE, id |-> c, secret |-> clients[c].client_secret]] :
          c \in DOMAIN clients}

RedirectInputs == {Undefined, LoopbackUri, HttpsUri}
VerifierInputs == {Undefined, "verifier-1", "verifier-2", "hash-1"}

\* The credentials and the verifier that redeem the stored code `ac`.
GoodCredentials(ac, clients) ==
  [client_id |-> ac.client_id, client_secret |-> clients[ac.client_id].client_secret,
   basic |-> NoBasic]

GoodVerifier(ac) ==
  IF ac.code_challenge_method = "plain" THEN ac.code_challenge ELSE "verifier-1"

\* What qbClient.refreshUsingToken resolves to, or its rejection (ok = FALSE).
UpstreamRefresh ==
  [access_token |-> "qb-access-2", refresh_token |-> "qb-refresh-2"]

RefreshResults == {[ok |-> FALSE, token |-> UpstreamRefresh],
                   [ok |-> TRUE, token |-> UpstreamRefresh]}

\* The refresh tokens presented: none, one sealed under another key, an access
\* token, a refresh token of client-1, one that expired, and the tokens the
\* grant handed out.
RefreshTokenInputs ==
  handedOut \cup
  {NoToken,
   Seal(StatelessTokenPayload("refresh", ClientId(1), "realm-t", "qb-access-1",
                              "qb-refresh-1", 0, RefreshLifetime), "key-2", Nonce),
   encryptTokenPayload(StatelessTokenPayload("access", ClientId(1), "realm-t", "qb-access-1",
                                             "qb-refresh-1", 0, TOKEN_EXPIRY_SECONDS)),
   encryptTokenPayload(StatelessTokenPayload("refresh", ClientId(1), "realm-t", "qb-access-1",
                                             "qb-refresh-1", 0, RefreshLifetime)),
   encryptTokenPayload(StatelessTokenPayload("refresh", ClientId(1), "realm-t", "qb-access-1",
                                             "qb-refresh-1", 0 - RefreshLifetime - 1,
                                             RefreshLifetime))}

TokenRequest(grantType, code, creds, redirectUri, codeVerifier, refreshToken, upstream) ==
  [grant_type |-> grantType, code |-> code, creds |-> creds, redirect_uri |-> redirectUri,
   code_verifier |-> codeVerifier, refresh_token |-> refreshToken,
   upstream |-> upstream]

\* An authorization_code request; `upstream` is what the upstream would answer
\* to a refresh made while the request is handled, which this grant never asks.
CodeRequest(code, creds, redirectUri, codeVerifier) ==
  TokenRequest("authorization_code", code, creds, redirectUri, codeVerifier, NoToken,
               [ok |-> FALSE, token |-> UpstreamRefresh])

BodyClient(clientId) == [client_id |-> clientId, client_secret |-> Undefined, basic |-> NoBasic]

\* The requests of the model.  For the authorization_code grant: every
\* credential with every code; and for every stored code every redirect_uri,
\* from its own client and from an unknown one, and every code_verifier; the
\* parameters not varied being those that redeem the code.  For the
\* refresh_token grant: every refresh token with three client ids and with a
\* wrong client_secret, and both upstream answers for the one that is
\* accepted.  And two grant types that are not supported.
TokenRequests ==
  {CodeRequest(code, cr,
               IF code \in DOMAIN authorizationCodes
                 THEN authorizationCodes[code].redirect_uri ELSE LoopbackUri,
               IF code \in DOMAIN authorizationCodes
                 THEN GoodVerifier(authorizationCodes[code]) ELSE "verifier-1") :
     code \in {Undefined, "unknown-code"} \cup {AuthCode(i) : i \in 1..nCodes},
     cr \in CredentialInputs(registeredClients)}
  \cup
  {CodeRequest(code, IF own THEN GoodCredentials(authorizationCodes[code], registeredClients)
                            ELSE BodyClient("unknown-client"),
               ru, GoodVerifier(authorizationCodes[code])) :
     code \in DOMAIN authorizationCodes, own \in BOOLEAN, ru \in RedirectInputs}
  \cup
  {CodeRequest(code, GoodCredentials(authorizationCodes[code], registeredClients),
               authorizationCodes[code].redirect_uri, cv) :
     code \in DOMAIN authorizationCodes, cv \in VerifierInputs}
  \cup
  {TokenRequest("refresh_token", Undefined, BodyClient(cid), Undefined, Undefined, rt,
                [ok |-> FALSE, token |-> UpstreamRefresh]) :
     cid \in {Undefined, ClientId(1), "unknown-client"}, rt \in RefreshTokenInputs}
  \cup
  {TokenRequest("refresh_token", Undefined, BodyClient(Undefined), Undefined, Undefined, rt,
                [ok |-> TRUE, token |-> UpstreamRefresh]) :
     rt \in RefreshTokenInputs}
  \cup
  {TokenRequest("refresh_token", Undefined,
                [client_id |-> ClientId(1), client_secret |-> "wrong-secret",
                 basic |-> NoBasic],
                Undefined, Undefined, rt, [ok |-> FALSE, token |-> UpstreamRefresh]) :
     rt \in RefreshTokenInputs}
  \cup
  {TokenRequest(gt, Undefined, BodyClient(cid), Undefined, Undefined, NoToken,
                [ok |-> FALSE, token |-> UpstreamRefresh]) :
     gt \in {Undefined, "password"}, cid \in {Undefined, ClientId(1), "unknown-client"}}

\* clientId and clientSecret after the Basic header is read.
ResolveCredentials(creds) ==
  IF creds.basic.present
    THEN [clientId |-> OrElse(creds.client_id, creds.basic.id),
          clientSecret |-> OrElse(creds.client_secret, creds.basic.secret)]
    ELSE [clientId |-> creds.client_id, clientSecret |-> creds.client_secret]

\* A validation that looks the client up and never compares the secret.
ClientRejectionUnknownOnly(clientId, clientSecret, clients) ==
  IF clientId \notin DOMAIN clients
    THEN Json(401, "invalid_client", "Unknown client")
    ELSE Pass

\* The validation of the client, made for the authorization_code grant.
ClientRejection(clientId, clientSecret, clients) ==
  IF clientId \notin DOMAIN clients
    THEN Json(401, "invalid_client", "Unknown client")
  ELSE IF clients[clientId].token_endpoint_auth_method # "none"
          /\ clients[clientId].client_secret # clientSecret
    THEN Json(401, "invalid_client", "Invalid client credentials")
  ELSE Pass

\* A grant that makes no PKCE check.
PkceRejectionSkipped(authCode, code_verifier) == Pass

\* The PKCE check of the authorization_code grant.
PkceRejection(authCode, code_verifier) ==
  IF Falsy(authCode.code_challenge) THEN Pass
  ELSE IF Falsy(code_verifier)
    THEN Json(400, "invalid_request", "code_verifier is required")
  ELSE IF ~verifyCodeChallenge(code_verifier, authCode.code_challenge,
                               authCode.code_challenge_method)
    THEN Json(400, "invalid_grant", "Invalid code_verifier")
  ELSE Pass

\* A grant that does not compare the redirect_uri.
RedirectMismatchNever(authCode, redirect_uri) == FALSE

\* `authCode.redirect_uri !== redirect_uri`
RedirectMismatch(authCode, redirect_uri) == authCode.redirect_uri # redirect_uri

\* A grant that leaves the redeemed code in the store.
DeleteRedeemedKeep(codes, code) == codes

\* authorizationCodes.delete(code) on a successful redemption.
DeleteRedeemed(codes, code) == Remove(codes, code)

TokenResponse(clientId, realmId, qbAccessToken, qbRefreshToken, scope, t) ==
  [kind |-> "json", status |-> 200, error |-> Undefined, description |-> Undefined,
   access_token |-> encryptTokenPayload(
     StatelessTokenPayload("access", clientId, realmId, qbAccessToken, qbRefreshToken,
                           t, TOKEN_EXPIRY_SECONDS)),
   token_type |-> "Bearer",
   expires_in |-> TOKEN_EXPIRY_SECONDS,
   refresh_token |-> encryptTokenPayload(
     StatelessTokenPayload("refresh", clientId, realmId, qbAccessToken, qbRefreshToken,
                           t, RefreshLifetime)),
   scope |-> scope]

\* The authorization_code grant on a request whose client has been validated.
AuthorizationCodeGrant(req, clientId, codes, t) ==
  IF Falsy(req.code)
    THEN [codes |-> codes, resp |-> Json(400, "invalid_request", "code is required")]
  ELSE IF req.code \notin DOMAIN codes
    THEN [codes |-> codes,
          resp |-> Json(400, "invalid_grant", "Invalid or expired authorization code")]
  ELSE LET authCode == codes[req.code]
           pkce == PkceRejection(authCode, req.code_verifier)
       IN IF authCode.client_id # clientId
            THEN [codes |-> codes,
                  resp |-> Json(400, "invalid_grant",
                                "Authorization code was not issued to this client")]
          ELSE IF RedirectMismatch(authCode, req.redirect_uri)
            THEN [codes |-> codes,
                  resp |-> Json(400, "invalid_grant", "redirect_uri does not match")]
          ELSE IF pkce # Pass
            THEN [codes |-> codes, resp |-> pkce]
          ELSE IF Expired(t, authCode.expires_at)
            THEN [codes |-> Remove(codes, req.code),
                  resp |-> Json(400, "invalid_grant", "Authorization code has expired")]
          ELSE [codes |-> DeleteRedeemed(codes, req.code),
                resp |-> TokenResponse(clientId, authCode.realm_id,
                                       authCode.qb_access_token, authCode.qb_refresh_token,
                                       OrElse(authCode.scope, "quickbooks:accounting"), t)]

\* A grant that does not compare the client_id of the request with the token's.
ClientMismatchNever(clientId, tokenPayload) == FALSE

\* `clientId && tokenPayload.client_id !== clientId`
ClientMismatch(clientId, tokenPayload) ==
  ~Falsy(clientId) /\ tokenPayload.client_id # clientId

\* A grant that keeps the tokens of the payload whatever the upstream answers.
UpstreamTokensStale(tokenPayload, upstream) ==
  [access_token |-> tokenPayload.qb_access_token,
   refresh_token |-> tokenPayload.qb_refresh_token]

\* A grant that takes the tokens of the answer without the try/catch around it.
UpstreamTokensBlind(tokenPayload, upstream) ==
  [access_token |-> upstream.token.access_token,
   refresh_token |-> upstream.token.refresh_token]

\* qbAccessToken and qbRefreshToken after the try/catch around
\* refreshUsingToken: the rotated tokens when the call was made and resolved,
\* the tokens of the payload otherwise.
UpstreamTokens(tokenPayload, upstream) ==
  IF ~Falsy(tokenPayload.qb_refresh_token) /\ upstream.ok
    THEN [access_token |-> upstream.token.access_token,
          refresh_token |-> upstream.token.refresh_token]
    ELSE [access_token |-> tokenPayload.qb_access_token,
          refresh_token |-> tokenPayload.qb_refresh_token]

\* The refresh_token grant.  The handler awaits the upstream refresh and
\* touches no store: it is one step, the upstream's answer coming with the
\* request.
RefreshTokenGrant(req, clientId, t) ==
  LET tokenPayload == decryptTokenPayload(req.refresh_token)
      qb == UpstreamTokens(tokenPayload, req.upstream)
  IN IF req.refresh_token = NoToken
       THEN Json(400, "invalid_request", "refresh_token is required")
     ELSE IF tokenPayload = NoPayload
       THEN Json(400, "invalid_grant", "Invalid refresh token")
     ELSE IF WrongKind(tokenPayload, "refresh")
       THEN Json(400, "invalid_grant", "Token is not a refresh token")
     ELSE IF Expired(t, tokenPayload.expires_at)
       THEN Json(400, "invalid_grant", "Refresh token has expired")
     ELSE IF ClientMismatch(clientId, tokenPayload)
       THEN Json(400, "invalid_grant", "Refresh token was not issued to this client")
     ELSE TokenResponse(OrElse(clientId, tokenPayload.client_id), tokenPayload.realm_id,
                        qb.access_token, qb.refresh_token, "quickbooks:accounting", t)

\* A fallthrough that blames the request.
UnsupportedGrantTypeAsRequest ==
  Json(400, "invalid_request",
       "Only authorization_code and refresh_token grants are supported")

\* The answer to a grant_type that is neither of the two.
UnsupportedGrantType ==
  Json(400, "unsupported_grant_type",
       "Only authorization_code and refresh_token grants are supported")

\* The handler on `req`: the response and the code store after it.
TokenOutcome(req, clients, codes, t) ==
  LET cr == ResolveCredentials(req.creds)
      rejection == ClientRejection(cr.clientId, cr.clientSecret, clients)
  IN IF req.grant_type = "authorization_code"
       THEN IF rejection # Pass
              THEN [codes |-> codes, resp |-> rejection]
              ELSE AuthorizationCodeGrant(req, cr.clientId, codes, t)
     ELSE IF req.grant_type = "refresh_token"
       THEN [codes |-> codes, resp |-> RefreshTokenGrant(req, cr.clientId, t)]
     ELSE [codes |-> codes, resp |-> UnsupportedGrantType]

\* What the requests leave behind, but for those of the refresh_token grant,
\* which touches none of the stores: they are the steps of Refresh.
TokenEffects ==
  {LET out == TokenOutcome(req, registeredClients, authorizationCodes, now)
       gone == out.codes # authorizationCodes
   IN [codes |-> out.codes,
       redeemed |-> IF out.resp.status = 200 /\ req.grant_type = "authorization_code"
                      THEN [redeemed EXCEPT ![req.code] = @ + 1] ELSE redeemed,
       origin |-> IF gone THEN Remove(origin, req.code) ELSE origin,
       flows |-> IF gone THEN Remove(flows, origin[req.code]) ELSE flows] :
   req \in {r \in TokenRequests : r.grant_type # "refresh_token"}}

Token ==
  \E eff \in TokenEffects :
      /\ authorizationCodes' = eff.codes
      /\ redeemed' = eff.redeemed
      /\ origin' = eff.origin
      /\ flows' = eff.flows
      /\ UNCHANGED <<registeredClients, pendingAuthorizations, now, inflight, nStates,
                     nCodes, consumed, minted, mcpVars, refreshVars, memoryVars>>

\* The number of 200 answers the refresh_token grant has given.
RECURSIVE Sum(_, _)
Sum(f, S) == IF S = {} THEN 0 ELSE LET x == CHOOSE y \in S : TRUE
                                   IN f[x] + Sum(f, S \ {x})

GrantsSoFar == Sum(grants, DOMAIN grants)

\* The handler on the requests of the refresh_token grant: a 200 answer hands
\* out its two tokens, which later requests present.
RefreshEffects ==
  {LET answer == TokenOutcome(req, registeredClients, authorizationCodes, now).resp
       token == req.refresh_token
   IN IF answer.status = 200
        THEN [ok |-> TRUE,
              handedOut |-> handedOut \cup {answer.access_token, answer.refresh_token},
              grants |-> IF token \in DOMAIN grants
                           THEN [grants EXCEPT ![token] = @ + 1]
                           ELSE Put(grants, token, 1)]
        ELSE [ok |-> FALSE, handedOut |-> handedOut, grants |-> grants] :
   req \in {r \in TokenRequests : r.grant_type = "refresh_token"}}

Refresh ==
  \E eff \in RefreshEffects :
      /\ eff.ok => GrantsSoFar < MaxRefresh
      /\ handedOut' = eff.handedOut
      /\ grants' = eff.grants
      /\ UNCHANGED <<storeVars, historyVars, mcpVars, memoryVars>>

---------------------------------------------------------------------------
\* The in-memory variant of the server: the refresh_token grant of its POST
\* /token.  Its tokens are opaque strings; what they stand for is kept in the
\* maps accessTokens and refreshTokens, here `access` and `refresh`.

\* generateSecureToken(32): the n-th token drawn.
OpaqueToken(n) == "token-" \o ToString(n)

\* TokenData, as the grants build it.
TokenData(clientId, accessToken, refreshToken, realmId, qbAccessToken, qbRefreshToken, t) ==
  [client_id |-> clientId,
   access_token |-> accessToken,
   refresh_token |-> refreshToken,
   expires_at |-> t + TOKEN_EXPIRY_SECONDS,
   realm_id |-> realmId,
   qb_access_token |-> qbAccessToken,
   qb_refresh_token |-> qbRefreshToken]

\* The refresh_token grant up to its await: its rejection, or Pass.
MemoryRefreshRejection(req, clientId, refresh) ==
  IF Falsy(req.refresh_token)
    THEN Json(400, "invalid_request", "refresh_token is required")
  ELSE IF req.refresh_token \notin DOMAIN refresh
    THEN Json(400, "invalid_grant", "Invalid refresh token")
  ELSE IF refresh[req.refresh_token].client_id # clientId
    THEN Json(400, "invalid_grant", "Refresh token was not issued to this client")
  ELSE Pass

\* The refresh_token grant from the answer of the upstream on: the old tokens
\* are deleted, two tokens are drawn and set.  existingTokenData is what the
\* lookup before the await found; n tokens have been drawn so far.
MemoryRefreshMint(clientId, refreshToken, existingTokenData, upstream, access, refresh, n, t) ==
  LET qb == UpstreamTokens(existingTokenData, upstream)
      newAccessToken == OpaqueToken(n + 1)
      newRefreshToken == OpaqueToken(n + 2)
      newTokenData == TokenData(clientId, newAccessToken, newRefreshToken,
                                existingTokenData.realm_id, qb.access_token,
                                qb.refresh_token, t)
  IN [access |-> Put(Remove(access, existingTokenData.access_token),
                     newAccessToken, newTokenData),
      refresh |-> Put(Remove(refresh, refreshToken), newRefreshToken, newTokenData),
      resp |-> [kind |-> "json", status |-> 200, error |-> Undefined,
                description |-> Undefined,
                access_token |-> newAccessToken,
                token_type |-> "Bearer",
                expires_in |-> TOKEN_EXPIRY_SECONDS,
                refresh_token |-> newRefreshToken,
                scope |-> "quickbooks:accounting"]]

\* The handler on a refresh_token request whose refresh_token is a string or
\* missing, when no other request runs during its await; n tokens have been
\* drawn so far.  The client is validated first, for every grant.  The
\* response and the two maps after it.
MemoryRefreshGrant(req, clients, access, refresh, n, t) ==
  LET cr == ResolveCredentials(req.creds)
      rejection == ClientRejection(cr.clientId, cr.clientSecret, clients)
      checks == MemoryRefreshRejection(req, cr.clientId, refresh)
      failed(resp) == [access |-> access, refresh |-> refresh, resp |-> resp]
  IN IF rejection # Pass THEN failed(rejection)
     ELSE IF checks # Pass THEN failed(checks)
     ELSE MemoryRefreshMint(cr.clientId, req.refresh_token, refresh[req.refresh_token],
                            req.upstream, access, refresh, n, t)

\* The authorization_code grant of the in-memory variant on a request whose
\* client has been validated: the checks and the deletion of the code are
\* those of the stateless handler, the tokens are drawn and set in the maps.
MemoryCodeGrant(req, clientId, codes, access, refresh, n, t) ==
  LET checked == AuthorizationCodeGrant(req, clientId, codes, t)
      authCode == codes[req.code]
      accessToken == OpaqueToken(n + 1)
      newRefreshToken == OpaqueToken(n + 2)
      tokenData == TokenData(clientId, accessToken, newRefreshToken, authCode.realm_id,
                             authCode.qb_access_token, authCode.qb_refresh_token, t)
  IN IF checked.resp.status # 200
       THEN [codes |-> checked.codes, access |-> access, refresh |-> refresh,
             resp |-> checked.resp]
       ELSE [codes |-> checked.codes,
             access |-> Put(access, accessToken, tokenData),
             refresh |-> Put(refresh, newRefreshToken, tokenData),
             resp |-> [kind |-> "json", status |-> 200, error |-> Undefined,
                       description |-> Undefined,
                       access_token |-> accessToken,
                       token_type |-> "Bearer",
                       expires_in |-> TOKEN_EXPIRY_SECONDS,
                       refresh_token |-> newRefreshToken,
                       scope |-> OrElse(authCode.scope, "quickbooks:accounting")]]

\* validateAccessToken's null.
NoTokenData == [ok |-> FALSE]

\* validateAccessToken of the in-memory variant: the token data or null, and
\* the map after it (an expired token is deleted).
MemoryValidateAccessToken(token, access, t) ==
  IF token \notin DOMAIN access THEN [access |-> access, tokenData |-> NoTokenData]
  ELSE IF Expired(t, access[token].expires_at)
    THEN [access |-> Remove(access, token), tokenData |-> NoTokenData]
  ELSE [access |-> access, tokenData |-> access[token]]

\* The requests to POST /token of the in-memory variant: those that redeem a
\* stored code, one of an unknown client, and those of a registered client
\* that present a refresh token of the map, or none.
MemoryTokenRequests ==
  {CodeRequest(code, GoodCredentials(authorizationCodes[code], registeredClients),
               authorizationCodes[code].redirect_uri,
               GoodVerifier(authorizationCodes[code])) :
     code \in DOMAIN authorizationCodes}
  \cup {CodeRequest("unknown-code", BodyClient("unknown-client"), LoopbackUri, "verifier-1")}
  \cup {TokenRequest("refresh_token", Undefined,
                     [client_id |-> c, client_secret |-> registeredClients[c].client_secret,
                      basic |-> NoBasic],
                     Undefined, Undefined, rt, [ok |-> FALSE, token |-> UpstreamRefresh]) :
          c \in DOMAIN registeredClients, rt \in {Undefined} \cup DOMAIN memRefreshTokens}

\* A request to POST /token that answers without awaiting: a rejection, the
\* authorization_code grant, or a refresh_token grant whose token data has no
\* upstream refresh token.
MemoryToken ==
  \E req \in MemoryTokenRequests :
    LET cr == ResolveCredentials(req.creds)
        rejection == ClientRejection(cr.clientId, cr.clientSecret, registeredClients)
        checks == MemoryRefreshRejection(req, cr.clientId, memRefreshTokens)
        out == IF rejection # Pass
                 THEN [codes |-> authorizationCodes, access |-> memAccessTokens,
                       refresh |-> memRefreshTokens, resp |-> rejection]
               ELSE IF req.grant_type = "authorization_code"
                 THEN MemoryCodeGrant(req, cr.clientId, authorizationCodes, memAccessTokens,
                                      memRefreshTokens, memDrawn, now)
               ELSE IF checks # Pass
                 THEN [codes |-> authorizationCodes, access |-> memAccessTokens,
                       refresh |-> memRefreshTokens, resp |-> checks]
               ELSE [codes |-> authorizationCodes] @@
                    MemoryRefreshMint(cr.clientId, req.refresh_token,
                                      memRefreshTokens[req.refresh_token], req.upstream,
                                      memAccessTokens, memRefreshTokens, memDrawn, now)
        awaits == /\ rejection = Pass
                  /\ req.grant_type = "refresh_token"
                  /\ checks = Pass
                  /\ ~Falsy(memRefreshTokens[req.refresh_token].qb_refresh_token)
        gone == out.codes # authorizationCodes
        granted == req.grant_type = "refresh_token" /\ out.resp.status = 200
    IN /\ ~awaits
       /\ authorizationCodes' = out.codes
       /\ memAccessTokens' = out.access
       /\ memRefreshTokens' = out.refresh
       /\ memDrawn' = IF out.resp.status = 200 THEN memDrawn + 2 ELSE memDrawn
       /\ memGranted' = IF granted
                          THEN Put(memGranted, req.refresh_token,
                                   [pairs |-> 1,
                                    access_token |->
                                      memRefreshTokens[req.refresh_token].access_token])
                          ELSE memGranted
       /\ redeemed' = IF out.resp.status = 200 /\ req.grant_type = "authorization_code"
                        THEN [redeemed EXCEPT ![req.code] = @ + 1] ELSE redeemed
       /\ origin' = IF gone THEN Remove(origin, req.code) ELSE origin
       /\ flows' = IF gone THEN Remove(flows, origin[req.code]) ELSE flows
       /\ UNCHANGED <<registeredClients, pendingAuthorizations, now, inflight, nStates,
                      nCodes, consumed, minted, mcpVars, refreshVars, memAwaiting>>

\* A refresh_token request that passes the checks reaches
\* `await qbClient.refreshUsingToken(qbRefreshToken)` with what its lookup found.
MemoryRefreshAwait ==
  \E req \in MemoryTokenRequests :
    LET cr == ResolveCredentials(req.creds)
        id == CHOOSE i \in 1..MaxAwaiting : i \notin DOMAIN memAwaiting
        pairs == [token \in DOMAIN memGranted |-> memGranted[token].pairs]
    IN /\ Cardinality(DOMAIN memAwaiting) + Sum(pairs, DOMAIN pairs) < MaxAwaiting
       /\ req.grant_type = "refresh_token"
       /\ ClientRejection(cr.clientId, cr.clientSecret, registeredClients) = Pass
       /\ MemoryRefreshRejection(req, cr.clientId, memRefreshTokens) = Pass
       /\ ~Falsy(memRefreshTokens[req.refresh_token].qb_refresh_token)
       /\ memAwaiting' = Put(memAwaiting, id,
                             [clientId |-> cr.clientId, refresh_token |-> req.refresh_token,
                              existingTokenData |-> memRefreshTokens[req.refresh_token]])
       /\ UNCHANGED <<storeVars, historyVars, mcpVars, refreshVars, memAccessTokens,
                      memRefreshTokens, memDrawn, memGranted>>

\* The upstream answers, or throws, and the handler goes on to its response.
MemoryRefreshResume ==
  \E id \in DOMAIN memAwaiting, upstream \in RefreshResults :
    LET w == memAwaiting[id]
        out == MemoryRefreshMint(w.clientId, w.refresh_token, w.existingTokenData, upstream,
                                 memAccessTokens, memRefreshTokens, memDrawn, now)
    IN /\ memAccessTokens' = out.access
       /\ memRefreshTokens' = out.refresh
       /\ memDrawn' = memDrawn + 2
       /\ memAwaiting' = Remove(memAwaiting, id)
       /\ memGranted' = IF w.refresh_token \in DOMAIN memGranted
                          THEN [memGranted EXCEPT ![w.refresh_token].pairs = @ + 1]
                          ELSE Put(memGranted, w.refresh_token,
                                   [pairs |-> 1,
                                    access_token |-> w.existingTokenData.access_token])
       /\ UNCHANGED <<storeVars, historyVars, mcpVars, refreshVars>>

\* The handler of the in-memory variant on a request whose grant_type is
\* neither authorization_code nor refresh_token: the client is validated, then
\* neither grant is entered.  The response and the stores after it.
MemoryOtherGrant(req, clients, codes, access, refresh) ==
  LET cr == ResolveCredentials(req.creds)
      rejection == ClientRejection(cr.clientId, cr.clientSecret, clients)
  IN [codes |-> codes, access |-> access, refresh |-> refresh,
      resp |-> IF rejection # Pass THEN rejection ELSE UnsupportedGrantType]

---------------------------------------------------------------------------
\* The clock.  Time matters to the handlers only through the expiry of a
\* stored code or of a token, so the clock moves to the instants where one
\* changes: the last instant a stored code or a token handed out is accepted,
\* and the first it is not.
Instants ==
  UNION {{authorizationCodes[c].expires_at, authorizationCodes[c].expires_at + 1} :
           c \in DOMAIN authorizationCodes}
  \cup UNION {{decryptTokenPayload(token).expires_at,
               decryptTokenPayload(token).expires_at + 1} : token \in handedOut}

Tick ==
  /\ \E t \in Instants : t > now /\ now' = t
  /\ UNCHANGED <<registeredClients, pendingAuthorizations, authorizationCodes, inflight,
                 nStates, nCodes, historyVars, mcpVars, refreshVars, memoryVars>>

---------------------------------------------------------------------------
\* Bearer tokens: validateAccessToken and getQuickBooksCredentials

\* The legacy accessTokens map: nothing ever writes it.
accessTokens == EmptyMap

\* The validation of server-held tokens: the lookup in the map only.
validateAccessTokenHeldOnly(token, t) ==
  IF token \notin DOMAIN accessTokens THEN NoTokenData ELSE accessTokens[token]

validateAccessToken(token, t) ==
  LET payload == decryptTokenPayload(token) IN
    IF payload # NoPayload
      THEN IF WrongKind(payload, "access") THEN NoTokenData
           ELSE IF Expired(t, payload.expires_at) THEN NoTokenData
           ELSE [ok |-> TRUE,
                 client_id |-> payload.client_id,
                 access_token |-> token,
                 refresh_token |-> Undefined,
                 expires_at |-> payload.expires_at,
                 realm_id |-> payload.realm_id,
                 qb_access_token |-> payload.qb_access_token,
                 qb_refresh_token |-> payload.qb_refresh_token]
      ELSE IF token \notin DOMAIN accessTokens THEN NoTokenData
           ELSE accessTokens[token]

\* getQuickBooksCredentials's null.
NoCredentials == [ok |-> FALSE]

getQuickBooksCredentials(token, t) ==
  LET tokenData == validateAccessToken(token, t) IN
    IF ~tokenData.ok THEN NoCredentials
    ELSE IF Falsy(tokenData.realm_id) \/ Falsy(tokenData.qb_access_token) THEN NoCredentials
    ELSE [ok |-> TRUE,
          realmId |-> tokenData.realm_id,
          accessToken |-> tokenData.qb_access_token,
          refreshToken |-> tokenData.qb_refresh_token]

\* new QuickBooks(...): the object made for request r.
createQuickBooksInstance(r, accessToken, realmId, refreshToken) ==
  [id |-> r, accessToken |-> accessToken, realmId |-> realmId,
   refreshToken |-> refreshToken]

---------------------------------------------------------------------------
\* POST /mcp

AccessToken(clientId, realmId, qbAccessToken, t) ==
  encryptTokenPayload(StatelessTokenPayload("access", clientId, realmId, qbAccessToken,
                                            "qb-refresh-1", t, TOKEN_EXPIRY_SECONDS))

\* The Authorization headers: none, and Bearer with the access tokens of two
\* companies, an expired one, a refresh token, one sealed under another key
\* and one without a realm.
McpHeaders ==
  {[scheme |-> "none", token |-> NoToken]}
  \cup {[scheme |-> "Bearer", token |-> tok] :
          tok \in {AccessToken(ClientId(1), "realm-1", "qb-access-1", 0),
                   AccessToken(ClientId(2), "realm-2", "qb-access-2", 0),
                   AccessToken(ClientId(1), "realm-1", "qb-access-1",
                               0 - TOKEN_EXPIRY_SECONDS - 1),
                   encryptTokenPayload(
                     StatelessTokenPayload("refresh", ClientId(1), "realm-1", "qb-access-1",
                                           "qb-refresh-1", 0, RefreshLifetime)),
                   Seal(StatelessTokenPayload("access", ClientId(1), "realm-1",
                                              "qb-access-1", "qb-refresh-1", 0,
                                              TOKEN_EXPIRY_SECONDS), "key-2", Nonce),
                   AccessToken(ClientId(1), Undefined, "qb-access-1", 0)}}

McpRequests ==
  [method : {"initialize", "tools/call"}, authorization : McpHeaders]

\* process.env.OAUTH_ISSUER || "http://localhost:8000"
Issuer == "http://localhost:8000"

\* The response headers a middleware sets with res.setHeader: none.
NoHeaders == {}

\* authMiddleware on request r: its 401, or Pass with req.qb (NoInstance when
\* the middleware sets none), and the response headers it sets.
authMiddleware(r, req, t) ==
  LET token == req.authorization.token
      tokenData == validateAccessToken(token, t)
      qbCreds == getQuickBooksCredentials(token, t)
  IN IF req.method = "initialize"
       THEN [resp |-> Pass, headers |-> NoHeaders, qb |-> NoInstance]
     ELSE IF req.authorization.scheme # "Bearer"
       THEN [resp |-> Json(401, "unauthorized", "Bearer token required"),
             headers |-> NoHeaders, qb |-> NoInstance]
     ELSE IF ~tokenData.ok
       THEN [resp |-> Json(401, "invalid_token", "Invalid or expired access token"),
             headers |-> NoHeaders, qb |-> NoInstance]
     ELSE IF ~qbCreds.ok
       THEN [resp |-> Json(401, "invalid_token",
                           "Token does not have QuickBooks credentials"),
             headers |-> NoHeaders, qb |-> NoInstance]
     ELSE [resp |-> Pass, headers |-> NoHeaders,
           qb |-> createQuickBooksInstance(r, qbCreds.accessToken, qbCreds.realmId,
                                           qbCreds.refreshToken)]

\* authMiddleware of the transparent-proxy server, where the bearer token is a
\* raw upstream access token and realmId is process.env.QUICKBOOKS_REALM_ID.
ProxyAuthMiddleware(r, req, realmId) ==
  IF req.method = "initialize"
    THEN [resp |-> Pass, headers |-> NoHeaders, qb |-> NoInstance]
  ELSE IF req.authorization.scheme # "Bearer"
    THEN [resp |-> Json(401, "unauthorized", "Bearer token required"),
          headers |-> {<<"WWW-Authenticate",
                         "Bearer resource_metadata=\"" \o Issuer
                           \o "/.well-known/oauth-protected-resource/mcp\"">>},
          qb |-> NoInstance]
  ELSE IF Falsy(realmId)
    THEN [resp |-> Json(500, "server_error", "QUICKBOOKS_REALM_ID is not configured"),
          headers |-> NoHeaders, qb |-> NoInstance]
  ELSE [resp |-> Pass, headers |-> NoHeaders,
        qb |-> createQuickBooksInstance(r, req.authorization.token, realmId, Undefined)]

\* The tool handler has not run.
NotRun == [id |-> -1]

\* The request arrives: the middleware, then the handler up to its first await,
\* which sets the module-level instance.
McpArrive ==
  LET r == Cardinality(DOMAIN mcp) + 1 IN
    /\ r <= MaxMcp
    /\ \E req \in McpRequests :
         LET auth == authMiddleware(r, req, now) IN
           IF auth.resp # Pass
             THEN /\ mcp' = Put(mcp, r, [method |-> req.method, pc |-> "rejected",
                                         qb |-> NoInstance, got |-> NotRun,
                                         error |-> auth.resp.error])
                  /\ UNCHANGED currentQBInstance
             ELSE /\ mcp' = Put(mcp, r, [method |-> req.method, pc |-> "awaiting",
                                         qb |-> auth.qb, got |-> NotRun,
                                         error |-> Undefined])
                  /\ currentQBInstance' = auth.qb
    /\ UNCHANGED <<storeVars, historyVars, refreshVars, memoryVars>>

\* requireQB() in a tool handler: what getQB() returns.
requireQB(instance) ==
  [qb |-> instance,
   error |-> IF instance = NoInstance THEN "Not authenticated" ELSE Undefined]

\* transport.handleRequest resumes for request r: a tools/call runs its tool
\* handler, which asks for the instance; an initialize runs none.
McpHandle ==
  \E r \in DOMAIN mcp :
    /\ mcp[r].pc = "awaiting"
    /\ mcp' = [mcp EXCEPT ![r] =
                 IF mcp[r].method = "tools/call"
                   THEN [@ EXCEPT !.pc = "handled",
                                  !.got = requireQB(currentQBInstance).qb,
                                  !.error = requireQB(currentQBInstance).error]
                   ELSE [@ EXCEPT !.pc = "handled"]]
    /\ UNCHANGED <<currentQBInstance, storeVars, historyVars, refreshVars, memoryVars>>

\* server.connect or transport.handleRequest throws: the catch block.
McpFail ==
  \E r \in DOMAIN mcp :
    /\ mcp[r].pc = "awaiting"
    /\ mcp' = [mcp EXCEPT ![r] = [@ EXCEPT !.pc = "failed", !.error = "server_error"]]
    /\ currentQBInstance' = NoInstance
    /\ UNCHANGED <<storeVars, historyVars, refreshVars, memoryVars>>

\* The response of request r closes: the "close" listener.
McpClose ==
  \E r \in DOMAIN mcp :
    /\ mcp[r].pc \in {"awaiting", "handled", "failed"}
    /\ mcp' = [mcp EXCEPT ![r] = [@ EXCEPT !.pc = "closed"]]
    /\ currentQBInstance' = NoInstance
    /\ UNCHANGED <<storeVars, historyVars, refreshVars, memoryVars>>

---------------------------------------------------------------------------
\* The OAuth router.  Its handlers neither read nor write the /mcp handler's
\* variable, and the /mcp handler reads no store of the router (its tokens are
\* stateless): the two are checked apart.
Next ==
  \/ Register
  \/ Authorize
  \/ Callback
  \/ CallbackExchange
  \/ Token
  \/ Tick

Spec == Init /\ [][Next]_vars

\* The server under its scheduling: the continuation of a handler that awaits
\* the upstream runs once the upstream has answered, and the clock goes on to
\* the next instant.  When a request arrives is up to the clients.
SpecFair == Spec /\ WF_vars(CallbackExchange) /\ WF_vars(Tick)

\* The /mcp endpoint.
NextMcp ==
  \/ McpArrive
  \/ McpHandle
  \/ McpFail
  \/ McpClose

SpecMcp == Init /\ [][NextMcp]_vars

\* The refresh_token grant and the clock: the life of the tokens.
NextRefresh ==
  \/ Refresh
  \/ Tick

SpecRefresh == Init /\ [][NextRefresh]_vars

\* The in-memory variant: its router, whose /register, /authorize and
\* /callback are those of the stateless one, with its own /token.
NextMemory ==
  \/ Register
  \/ Authorize
  \/ Callback
  \/ CallbackExchange
  \/ MemoryToken
  \/ MemoryRefreshAwait
  \/ MemoryRefreshResume

SpecMemory == Init /\ [][NextMemory]_vars

\* The registration endpoint alone, on every body.
---------------------------------------------------------------------------
\* The transparent-proxy variant: /register, /authorize and /callback are those
\* of the stateless variant; POST /token returns the upstream tokens as they
\* are.

\* The refresh tokens presented: none, the two the upstream issued and one it
\* does not know.
ProxyRefreshInputs == {Undefined, "qb-refresh-1", "qb-refresh-2", "unknown-token"}

\* What qbClient.refreshUsingToken(token) resolves to, or its rejection
\* (ok = FALSE).  expires_in = 0 stands for an answer without expires_in,
\* which `||` treats as it treats 0.
ProxyRefreshResult(ok, expiresIn) ==
  [ok |-> ok,
   token |-> [access_token |-> "qb-access-2", refresh_token |-> "qb-refresh-2",
              expires_in |-> expiresIn]]

\* The upstream, as a function of the token it is given: one that is down,
\* and two that rotate the tokens they issued and refuse every other one.
ProxyUpstreams ==
  {[token \in ProxyRefreshInputs |-> ProxyRefreshResult(FALSE, 0)]}
  \cup {[token \in ProxyRefreshInputs |->
           ProxyRefreshResult(token \in {"qb-refresh-1", "qb-refresh-2"}, e)] :
          e \in {0, 1800}}

\* A response that hands out tokens of the server's own making.
ProxyCodeResponseOpaque(authCode) ==
  [kind |-> "json", status |-> 200, error |-> Undefined, description |-> Undefined,
   access_token |-> OpaqueToken(1),
   token_type |-> "Bearer",
   expires_in |-> 3600,
   refresh_token |-> OpaqueToken(2),
   scope |-> OrElse(authCode.scope, "com.intuit.quickbooks.accounting")]

\* res.json of the authorization_code grant.
ProxyCodeResponse(authCode) ==
  [kind |-> "json", status |-> 200, error |-> Undefined, description |-> Undefined,
   access_token |-> authCode.qb_access_token,
   token_type |-> "Bearer",
   expires_in |-> 3600,
   refresh_token |-> authCode.qb_refresh_token,
   scope |-> OrElse(authCode.scope, "com.intuit.quickbooks.accounting")]

\* The authorization_code grant: the checks of the stateless variant, and the
\* tokens of the code in the answer.
ProxyCodeGrant(req, clientId, codes, t) ==
  LET checked == AuthorizationCodeGrant(req, clientId, codes, t) IN
    IF checked.resp.status # 200 THEN checked
    ELSE [codes |-> checked.codes, resp |-> ProxyCodeResponse(codes[req.code])]

\* The refresh_token grant: the token of the request goes to the upstream.
ProxyRefreshGrant(req) ==
  IF Falsy(req.refresh_token)
    THEN Json(400, "invalid_request", "refresh_token is required")
  ELSE LET refreshResponse == req.upstream[req.refresh_token]
           newTokens == refreshResponse.token
       IN IF ~refreshResponse.ok
            THEN Json(400, "invalid_grant", "Failed to refresh token")
            ELSE [kind |-> "json", status |-> 200, error |-> Undefined,
                  description |-> Undefined,
                  access_token |-> newTokens.access_token,
                  token_type |-> "Bearer",
                  expires_in |-> IF newTokens.expires_in = 0
                                   THEN 3600 ELSE newTokens.expires_in,
                  refresh_token |-> newTokens.refresh_token,
                  scope |-> "com.intuit.quickbooks.accounting"]

\* The handler on `req`: the response and the code store after it.
ProxyTokenOutcome(req, clients, codes, t) ==
  LET cr == ResolveCredentials(req.creds)
      rejection == ClientRejection(cr.clientId, cr.clientSecret, clients)
  IN IF req.grant_type = "authorization_code"
       THEN IF rejection # Pass
              THEN [codes |-> codes, resp |-> rejection]
              ELSE ProxyCodeGrant(req, cr.clientId, codes, t)
     ELSE IF req.grant_type = "refresh_token"
       THEN [codes |-> codes, resp |-> ProxyRefreshGrant(req)]
     ELSE [codes |-> codes, resp |-> UnsupportedGrantType]

ProxyRequest(grantType, code, creds, redirectUri, codeVerifier, refreshToken, upstream) ==
  [grant_type |-> grantType, code |-> code, creds |-> creds, redirect_uri |-> redirectUri,
   code_verifier |-> codeVerifier, refresh_token |-> refreshToken, upstream |-> upstream]

\* The refresh_token requests: every token and every upstream, with no
\* client, an unknown one and a registered one with a wrong secret.
ProxyRefreshRequests ==
  {ProxyRequest("refresh_token", Undefined, cr, Undefined, Undefined, token, upstream) :
     cr \in {BodyClient(Undefined), BodyClient("unknown-client")}
             \cup {[client_id |-> c, client_secret |-> "wrong-secret", basic |-> NoBasic] :
                     c \in DOMAIN registeredClients \cap {ClientId(1)}},
     token \in ProxyRefreshInputs,
     upstream \in ProxyUpstreams}

\* The authorization_code requests on the stored code c: the one that redeems
\* it, and those of a wrong verifier and of an unknown client.
ProxyCodeRequests(c) ==
  {ProxyRequest("authorization_code", c, cr, authorizationCodes[c].redirect_uri, v,
                Undefined, CHOOSE upstream \in ProxyUpstreams : TRUE) :
     cr \in {GoodCredentials(authorizationCodes[c], registeredClients),
             BodyClient("unknown-client")},
     v \in {GoodVerifier(authorizationCodes[c]), "verifier-2"}}

ProxyTokenRequests ==
  ProxyRefreshRequests
  \cup UNION {ProxyCodeRequests(c) : c \in DOMAIN authorizationCodes}
  \cup {ProxyRequest("password", Undefined, BodyClient(Undefined), Undefined, Undefined,
                     Undefined, CHOOSE upstream \in ProxyUpstreams : TRUE)}

ProxyToken ==
  \E req \in ProxyTokenRequests :
    LET out == ProxyTokenOutcome(req, registeredClients, authorizationCodes, now)
        gone == out.codes # authorizationCodes
    IN /\ authorizationCodes' = out.codes
       /\ redeemed' = IF out.resp.status = 200 /\ req.grant_type = "authorization_code"
                        THEN [redeemed EXCEPT ![req.code] = @ + 1] ELSE redeemed
       /\ origin' = IF gone THEN Remove(origin, req.code) ELSE origin
       /\ flows' = IF gone THEN Remove(flows, origin[req.code]) ELSE flows
       /\ UNCHANGED <<registeredClients, pendingAuthorizations, now, inflight, nStates,
                      nCodes, consumed, minted, mcpVars, refreshVars, memoryVars>>

NextProxy ==
  \/ Register
  \/ Authorize
  \/ Callback
  \/ CallbackExchange
  \/ ProxyToken
  \/ Tick

SpecProxy == Init /\ [][NextProxy]_vars

\* The authorization-code flow with every code_challenge_method.
NextPkce ==
  \/ Register
  \/ AuthorizeAnyMethod
  \/ Callback
  \/ CallbackExchange
  \/ Token
  \/ Tick

SpecPkce == Init /\ [][NextPkce]_vars

NextRegister == RegisterAny

SpecRegister == Init /\ [][NextRegister]_vars
---------------------------------------------------------------------------
\* The claims.  A handler's answer to a request is its outcome operator applied
\* to the request and the stores of the state; the history variables tell
\* what the handlers have done before.

\* The answer of POST /token to `req` in this state.
TokenAnswer(req) == TokenOutcome(req, registeredClients, authorizationCodes, now).resp

\* The authorization_code requests that present code c.
Presenting(c) ==
  {req \in TokenRequests : req.grant_type = "authorization_code" /\ req.code = c}

\* The request names a registered client and carries its secret if it has one.
Authenticates(req) ==
  LET cr == ResolveCredentials(req.creds) IN
    /\ cr.clientId \in DOMAIN registeredClients
    /\ \/ registeredClients[cr.clientId].token_endpoint_auth_method = "none"
       \/ registeredClients[cr.clientId].client_secret = cr.clientSecret

\* The /authorize request the internal state s was generated for, and the one
\* the stored code c comes from.
FlowOfState(s) == flows[s]
FlowOf(c) == FlowOfState(origin[c])

\* C1, as amended: a code is redeemed (answered 200) at most once, and after
\* its redemption every request presenting it fails: with invalid_client when
\* the request does not authenticate its client, with invalid_grant otherwise.
C1_SingleUse ==
  \A c \in DOMAIN redeemed :
    /\ redeemed[c] <= 1
    /\ redeemed[c] = 1 =>
         \A req \in Presenting(c) :
           /\ TokenAnswer(req).status # 200
           /\ TokenAnswer(req).error =
                IF Authenticates(req) THEN "invalid_grant" ELSE "invalid_client"

\* C1 as stated: after the redemption every request presenting the code fails
\* with invalid_grant.
C1_Original ==
  \A c \in DOMAIN redeemed :
    /\ redeemed[c] <= 1
    /\ redeemed[c] = 1 =>
         \A req \in Presenting(c) : TokenAnswer(req).error = "invalid_grant"

\* A code has been redeemed, and both a client that authenticates and one
\* that does not present it again.
C1_Replayed ==
  \E c \in DOMAIN redeemed :
    /\ redeemed[c] = 1
    /\ \E req \in Presenting(c) :
         Authenticates(req) /\ TokenAnswer(req).error = "invalid_grant"
    /\ \E req \in Presenting(c) : ~Authenticates(req)

\* C2: the entry of an internal state is found by at most one callback, which
\* deletes it; until then it is there to be found; afterwards every callback
\* carrying the state gets 400 'Invalid or expired authorization state'; and
\* at most one code is minted for the state.
C2_ConsumedOnce ==
  \A s \in DOMAIN consumed :
    /\ consumed[s] <= 1
    /\ minted[s] <= consumed[s]
    /\ consumed[s] = 0 => s \in DOMAIN pendingAuthorizations
    /\ consumed[s] = 1 =>
         \A req \in CallbackRequests :
           req.state = s =>
             /\ CallbackOutcome(req, pendingAuthorizations).resp =
                  Text(400, "Invalid or expired authorization state")
             /\ CallbackOutcome(req, pendingAuthorizations).pending = pendingAuthorizations

\* A callback found the entry of a state, a code was minted for it, and
\* callbacks still carry the state.
C2_Consumed ==
  \E s \in DOMAIN consumed :
    /\ consumed[s] = 1
    /\ minted[s] = 1
    /\ \E req \in CallbackRequests : req.state = s

\* The code_verifiers a request can carry.
Verifiers == {v \in VerifierInputs : ~Falsy(v)}

\* The request that presents the stored code c with its client's credentials,
\* its redirect_uri and the code_verifier v.
Redeem(c, v) ==
  CodeRequest(c, GoodCredentials(authorizationCodes[c], registeredClients),
              authorizationCodes[c].redirect_uri, v)

\* The code comes from an /authorize request with method S256 (the default).
S256Flow(c) == FlowOf(c).code_challenge_method \in {Undefined, "S256"}

\* C3: before the expiry of a stored code, from its client and with its
\* redirect_uri: when /authorize was given the S256 challenge of v, the
\* verifier v is answered 200 and every other verifier invalid_grant, the
\* code staying in the store; when it was given a 'plain' challenge, the
\* verifier equal to the challenge is answered 200 and every other one
\* invalid_grant.
C3_Pkce ==
  \A c \in DOMAIN authorizationCodes :
    ~Expired(now, authorizationCodes[c].expires_at) =>
      \A v \in Verifiers :
        LET matches == IF S256Flow(c)
                         THEN FlowOf(c).code_challenge = Sha256Base64Url(v)
                         ELSE FlowOf(c).code_challenge_method = "plain"
                              /\ FlowOf(c).code_challenge = v
            out == TokenOutcome(Redeem(c, v), registeredClients, authorizationCodes, now)
        IN IF matches
             THEN out.resp.status = 200
             ELSE /\ out.resp.status = 400
                  /\ out.resp.error = "invalid_grant"
                  /\ out.codes = authorizationCodes

\* An unexpired code of an S256 flow whose challenge is that of verifier-1 is
\* stored (verifier-1 redeems it, verifier-2 does not).
C3_S256CodeStored ==
  \E c \in DOMAIN authorizationCodes :
    /\ ~Expired(now, authorizationCodes[c].expires_at)
    /\ S256Flow(c)
    /\ FlowOf(c).code_challenge = Sha256Base64Url("verifier-1")
    /\ TokenAnswer(Redeem(c, "verifier-1")).status = 200
    /\ TokenAnswer(Redeem(c, "verifier-2")).error = "invalid_grant"

\* C4, as amended: a request presenting a stored code is answered 200 only if
\* its redirect_uri is the one /authorize was given for the code; with any
\* other, or none, it fails: with invalid_client when it does not authenticate
\* its client, with invalid_grant otherwise.
C4_RedirectBinding ==
  \A c \in DOMAIN authorizationCodes :
    \A req \in Presenting(c) :
      /\ TokenAnswer(req).status = 200 => req.redirect_uri = FlowOf(c).redirect_uri
      /\ req.redirect_uri # FlowOf(c).redirect_uri =>
           TokenAnswer(req).error =
             IF Authenticates(req) THEN "invalid_grant" ELSE "invalid_client"

\* C4 as stated: with any other redirect_uri, or none, the request fails with
\* invalid_grant.
C4_Original ==
  \A c \in DOMAIN authorizationCodes :
    \A req \in Presenting(c) :
      /\ TokenAnswer(req).status = 200 => req.redirect_uri = FlowOf(c).redirect_uri
      /\ req.redirect_uri # FlowOf(c).redirect_uri =>
           TokenAnswer(req).error = "invalid_grant"

\* A stored code is presented by its client with another redirect_uri and with
\* none, and is refused; with the redirect_uri of /authorize it is redeemed.
C4_OtherRedirect ==
  \E c \in DOMAIN authorizationCodes :
    /\ \E req \in Presenting(c) :
         /\ Authenticates(req)
         /\ req.redirect_uri \notin {Undefined, FlowOf(c).redirect_uri}
         /\ TokenAnswer(req).error = "invalid_grant"
    /\ \E req \in Presenting(c) :
         Authenticates(req) /\ req.redirect_uri = Undefined
    /\ \E req \in Presenting(c) : TokenAnswer(req).status = 200

\* C5: the instance a tool handler obtains while serving a request is the one
\* the middleware built for that request.
C5_OwnInstance ==
  \A r \in DOMAIN mcp :
    mcp[r].got # NotRun => mcp[r].got = mcp[r].qb

\* The client is registered with one loopback redirect URI and method 'none'.
PublicLoopbackClient(client) ==
  /\ client.redirect_uris = <<LoopbackUri>>
  /\ client.token_endpoint_auth_method = "none"
  /\ client.client_secret = Undefined

\* The stateless token opens to a payload of the type.
OpensAs(token, type) == decryptTokenPayload(token).type = type

\* C6: the steps of the happy path, each at every state it can be taken in.
\* Registering one loopback URI with method 'none' is answered 201 with a new
\* client_id and no secret.  For such a client: /authorize with a registered
\* redirect_uri and a code_challenge is answered 302 to the upstream provider;
\* the callback that waits for the exchange, once it succeeds, redirects to
\* the client's redirect URI with a new code and the state /authorize was
\* given; the stored code, before its expiry, from its client and with the
\* right verifier, is answered 200 with an access and a refresh token; and
\* once redeemed, the code presented again by the client is answered
\* invalid_grant.
C6_HappyPath ==
  /\ \A req \in RegisterRequests :
       (req.redirect_uris = [isArray |-> TRUE, items |-> <<LoopbackUri>>]
        /\ req.token_endpoint_auth_method = "none") =>
         LET out == RegisterOutcome(req, registeredClients) IN
           /\ out.resp.status = 201
           /\ out.resp.client_id \notin DOMAIN registeredClients
           /\ out.resp.client_secret = Undefined
           /\ PublicLoopbackClient(out.clients[out.resp.client_id])
  /\ \A req \in AuthorizeRequests :
       (/\ req.response_type = "code"
        /\ req.client_id \in DOMAIN registeredClients
        /\ PublicLoopbackClient(registeredClients[req.client_id])
        /\ req.redirect_uri = LoopbackUri
        /\ ~Falsy(req.code_challenge)) =>
         LET out == AuthorizeOutcome(req, registeredClients, pendingAuthorizations, nStates)
         IN out.resp.status = 302 /\ out.resp.to = "upstream"
  /\ \A f \in BagToSet(inflight) :
       PublicLoopbackClient(registeredClients[FlowOfState(f.key).client_id]) =>
         LET out == ExchangeOutcome(f, [ok |-> TRUE, token |-> UpstreamGrant],
                                    authorizationCodes, nCodes, now)
         IN /\ out.resp.status = 302
            /\ out.resp.to = FlowOfState(f.key).redirect_uri
            /\ out.resp.code \in DOMAIN out.codes
            /\ out.resp.code \notin DOMAIN redeemed
            /\ out.resp.state = FlowOfState(f.key).state
  /\ \A c \in DOMAIN authorizationCodes :
       (/\ PublicLoopbackClient(registeredClients[FlowOf(c).client_id])
        /\ ~Expired(now, authorizationCodes[c].expires_at)) =>
         LET resp == TokenAnswer(Redeem(c, GoodVerifier(authorizationCodes[c])))
         IN /\ resp.status = 200
            /\ OpensAs(resp.access_token, "access")
            /\ OpensAs(resp.refresh_token, "refresh")
  /\ \A c \in DOMAIN redeemed :
       redeemed[c] = 1 =>
         \A req \in Presenting(c) :
           (/\ req.creds.client_id \in DOMAIN registeredClients
            /\ PublicLoopbackClient(registeredClients[req.creds.client_id])) =>
             TokenAnswer(req).status = 400 /\ TokenAnswer(req).error = "invalid_grant"

\* Every registered client is a loopback client without a secret, one of them
\* went through the whole path, and its code is presented again.
C6_PathTaken ==
  /\ \A id \in DOMAIN registeredClients : PublicLoopbackClient(registeredClients[id])
  /\ \E c \in DOMAIN redeemed :
       /\ redeemed[c] = 1
       /\ \E req \in Presenting(c) : req.creds.client_id \in DOMAIN registeredClients

\* C7: when /authorize passes a request on, the state of the redirect to the
\* upstream provider is the new key of the pending store, a token never
\* issued before and not the client's state, which is kept in the entry.
C7_UpstreamState ==
  \A req \in AuthorizeRequests :
    LET out == AuthorizeOutcome(req, registeredClients, pendingAuthorizations, nStates) IN
      out.ok =>
        /\ out.resp.to = "upstream"
        /\ out.resp.state \notin DOMAIN consumed
        /\ DOMAIN out.pending = DOMAIN pendingAuthorizations \cup {out.resp.state}
        /\ out.pending[out.resp.state].state = req.state
        /\ out.resp.state # req.state

\* /authorize has stored an entry for a request that carried a client state.
C7_EntryWithClientState ==
  \E s \in DOMAIN pendingAuthorizations :
    /\ ~Falsy(pendingAuthorizations[s].state)
    /\ flows[s].state = pendingAuthorizations[s].state
    /\ \E req \in AuthorizeRequests : ~Falsy(req.state) /\ req.code_challenge = "hash-1"

\* C8: for a callback that found its entry and waits for the exchange, a
\* successful exchange adds exactly one code to the store, whose client_id,
\* redirect_uri, code_challenge, code_challenge_method and scope are those of
\* the entry /authorize stored and whose upstream tokens are those of the
\* exchange, and redirects to the entry's redirect_uri with that code and the
\* client's state.
C8_CodeFromPending ==
  \A f \in BagToSet(inflight) :
    LET entry == PendingEntry(FlowOfState(f.key))
        out == ExchangeOutcome(f, [ok |-> TRUE, token |-> UpstreamGrant],
                               authorizationCodes, nCodes, now)
        new == DOMAIN out.codes \ DOMAIN authorizationCodes
    IN /\ Cardinality(new) = 1
       /\ \A c \in DOMAIN authorizationCodes : out.codes[c] = authorizationCodes[c]
       /\ \A c \in new :
            /\ out.codes[c].code = c
            /\ out.codes[c].client_id = entry.client_id
            /\ out.codes[c].redirect_uri = entry.redirect_uri
            /\ out.codes[c].code_challenge = entry.code_challenge
            /\ out.codes[c].code_challenge_method = entry.code_challenge_method
            /\ out.codes[c].scope = entry.scope
            /\ out.codes[c].qb_access_token = UpstreamGrant.access_token
            /\ out.codes[c].qb_refresh_token = UpstreamGrant.refresh_token
            /\ out.resp = ClientRedirect(entry.redirect_uri, c, Undefined, Undefined,
                                         entry.state)

\* A callback found its entry and waits for the exchange.
C8_CallbackWaiting ==
  \E f \in BagToSet(inflight) :
    /\ consumed[f.key] = 1
    /\ f.pending = PendingEntry(FlowOfState(f.key))
    /\ ~Falsy(f.pending.state)

\* The request is well formed but for its code_challenge, which is missing.
LacksOnlyChallenge(req) ==
  /\ req.response_type = "code"
  /\ req.client_id \in DOMAIN registeredClients
  /\ Includes(registeredClients[req.client_id].redirect_uris, req.redirect_uri)
  /\ Falsy(req.code_challenge)

\* C9: /authorize answers a request that lacks only the code_challenge with a
\* redirect to the client's redirect_uri carrying error=invalid_request and the
\* client's state if there is one, and stores no pending entry.
C9_PkceMandatory ==
  \A req \in AuthorizeRequests :
    LacksOnlyChallenge(req) =>
      LET out == AuthorizeOutcome(req, registeredClients, pendingAuthorizations, nStates) IN
        /\ out.resp = ClientRedirect(req.redirect_uri, Undefined, "invalid_request",
                                     "code_challenge is required (PKCE)", req.state)
        /\ out.resp.to # "upstream"
        /\ out.pending = pendingAuthorizations

\* A registered client sends requests that lack only the code_challenge, with
\* a state and without.
C9_ChallengeMissing ==
  /\ \E req \in AuthorizeRequests : LacksOnlyChallenge(req) /\ req.state = Undefined
  /\ \E req \in AuthorizeRequests :
       /\ LacksOnlyChallenge(req)
       /\ req.state # Undefined
       /\ AuthorizeRejection(req, registeredClients).error = "invalid_request"

\* The answer is the 400 JSON response with the error, and the pending store
\* is as before.
Rejected400(out, error) ==
  /\ out.resp.kind = "json"
  /\ out.resp.status = 400
  /\ out.resp.error = error
  /\ out.pending = pendingAuthorizations

\* C10, as amended: /authorize rejects, in this order, a response_type other
\* than 'code' with unsupported_response_type, a missing client_id with
\* invalid_request, a client_id that is not registered with invalid_client, and
\* a redirect_uri that is missing or not one of the client's with
\* invalid_redirect_uri; each with a 400 JSON response that leaves the pending
\* store unchanged.
C10_RejectionOrder ==
  \A req \in AuthorizeRequests :
    LET out == AuthorizeOutcome(req, registeredClients, pendingAuthorizations, nStates) IN
      IF req.response_type # "code"
        THEN Rejected400(out, "unsupported_response_type")
      ELSE IF Falsy(req.client_id)
        THEN Rejected400(out, "invalid_request")
      ELSE IF req.client_id \notin DOMAIN registeredClients
        THEN Rejected400(out, "invalid_client")
      ELSE IF Falsy(req.redirect_uri)
              \/ ~Includes(registeredClients[req.client_id].redirect_uris, req.redirect_uri)
        THEN Rejected400(out, "invalid_redirect_uri")
      ELSE out.resp.status = 302

\* C10 as stated: after the response_type, a client_id that does not resolve
\* in the registry is rejected with invalid_client.
C10_Original ==
  \A req \in AuthorizeRequests :
    LET out == AuthorizeOutcome(req, registeredClients, pendingAuthorizations, nStates) IN
      IF req.response_type # "code"
        THEN Rejected400(out, "unsupported_response_type")
      ELSE IF req.client_id \notin DOMAIN registeredClients
        THEN Rejected400(out, "invalid_client")
      ELSE IF Falsy(req.redirect_uri)
              \/ ~Includes(registeredClients[req.client_id].redirect_uris, req.redirect_uri)
        THEN Rejected400(out, "invalid_redirect_uri")
      ELSE out.resp.status = 302

\* A client is registered and a pending entry is stored; requests come with
\* another response_type, with an unregistered client_id, and from the client
\* with a redirect_uri that is not its own.
C10_EachRejection ==
  /\ pendingAuthorizations # EmptyMap
  /\ \E req \in AuthorizeRequests :
       /\ req.response_type = "code"
       /\ req.client_id \in DOMAIN registeredClients
       /\ ~Falsy(req.redirect_uri)
       /\ AuthorizeRejection(req, registeredClients) # Pass
       /\ AuthorizeRejection(req, registeredClients).error = "invalid_redirect_uri"
  /\ \E req \in AuthorizeRequests :
       /\ req.response_type = "code"
       /\ AuthorizeRejection(req, registeredClients) # Pass
       /\ AuthorizeRejection(req, registeredClients).error = "invalid_client"
  /\ \E req \in AuthorizeRequests :
       /\ req.client_id \in DOMAIN registeredClients
       /\ AuthorizeRejection(req, registeredClients) # Pass
       /\ AuthorizeRejection(req, registeredClients).error = "unsupported_response_type"
---------------------------------------------------------------------------
\* The /callback requests whose state keys no pending entry: the state is
\* missing, was never issued, or was already consumed.
KeysNoPending(req) == req.state \notin DOMAIN pendingAuthorizations

\* C11: a /callback whose state keys no PendingAuthorization (unknown, missing
\* or already consumed) is answered 400 "Invalid or expired authorization
\* state"; the handler returns before the upstream exchange and leaves the
\* pending store as it was (the code store is written after the exchange only).
C11_UnknownState ==
  \A req \in CallbackRequests :
    KeysNoPending(req) =>
      LET out == CallbackOutcome(req, pendingAuthorizations) IN
        /\ out.resp = Text(400, "Invalid or expired authorization state")
        /\ ~out.found
        /\ out.resp # Pass
        /\ out.pending = pendingAuthorizations

\* A state was consumed and its code is stored; callbacks arrive with that
\* state, with a state never issued and with no state.
C11_AllThreeKinds ==
  /\ authorizationCodes # EmptyMap
  /\ \E s \in DOMAIN consumed :
       /\ consumed[s] = 1
       /\ \E req \in CallbackRequests : req.state = s /\ KeysNoPending(req)
  /\ \E req \in CallbackRequests : req.state = Undefined /\ KeysNoPending(req)
  /\ \E req \in CallbackRequests : req.state = "unknown-state" /\ KeysNoPending(req)

\* The /callback requests that carry an upstream error for a pending state.
UpstreamErrors ==
  {req \in CallbackRequests :
     req.state \in DOMAIN pendingAuthorizations /\ ~Falsy(req.error)}

\* C12: a /callback carrying an upstream error for a known internal state is
\* redirected to the redirect_uri of the client that started the flow, with
\* the same error, the same error_description if there is one, and the
\* client's own state; the PendingAuthorization is consumed and the handler
\* returns before the exchange, so no code is minted.
C12_ErrorForwarded ==
  \A req \in UpstreamErrors :
    LET flow == FlowOfState(req.state)
        out == CallbackOutcome(req, pendingAuthorizations)
    IN /\ out.found
       /\ out.resp = ClientRedirect(flow.redirect_uri, Undefined, req.error,
                                    req.error_description, flow.state)
       /\ out.resp.code = Undefined
       /\ out.resp # Pass
       /\ req.state \notin DOMAIN out.pending
       /\ \A s \in DOMAIN out.pending : out.pending[s] = pendingAuthorizations[s]

\* A pending flow whose client sent a state, and upstream errors for it with
\* and without a description.
C12_ErrorArrives ==
  \E req1, req2 \in UpstreamErrors :
    /\ req1.state = req2.state
    /\ ~Falsy(FlowOfState(req1.state).state)
    /\ req1.error_description = Undefined
    /\ req2.error_description # Undefined

\* The upstream exchange of the waiting callback f throws.
ExchangeFails(f) ==
  ExchangeOutcome(f, [ok |-> FALSE, token |-> UpstreamGrant],
                  authorizationCodes, nCodes, now)

\* C13: when the upstream exchange of a /callback throws, the handler
\* redirects to the client's redirect_uri with error=server_error and the
\* client's state, stores no code, and the PendingAuthorization stays
\* consumed: a callback retried with the same state is answered 400.
C13_ExchangeFailure ==
  \A f \in BagToSet(inflight) :
    LET flow == FlowOfState(f.key)
        out == ExchangeFails(f)
    IN /\ out.resp.status = 302
       /\ out.resp.to = flow.redirect_uri
       /\ out.resp.error = "server_error"
       /\ out.resp.state = flow.state
       /\ out.resp.code = Undefined
       /\ ~out.minted
       /\ out.codes = authorizationCodes
       /\ f.key \notin DOMAIN pendingAuthorizations
       /\ \A req \in CallbackRequests :
            req.state = f.key =>
              CallbackOutcome(req, pendingAuthorizations).resp.status = 400

\* A callback of a flow with a client state waits for its exchange, and a
\* retry with the same state can arrive.
C13_ExchangePending ==
  \E f \in BagToSet(inflight) :
    /\ ~Falsy(FlowOfState(f.key).state)
    /\ ExchangeFails(f).resp.error = "server_error"
    /\ \E req \in CallbackRequests : req.state = f.key /\ Falsy(req.error)

---------------------------------------------------------------------------
\* The request names a registered client that has a secret and does not
\* carry that secret.
WrongSecret(req) ==
  LET cr == ResolveCredentials(req.creds) IN
    /\ cr.clientId \in DOMAIN registeredClients
    /\ registeredClients[cr.clientId].token_endpoint_auth_method # "none"
    /\ registeredClients[cr.clientId].client_secret # cr.clientSecret

\* The same request carrying the secret its client was registered with.
WithRegisteredSecret(req) ==
  [req EXCEPT !.creds.client_secret =
     registeredClients[ResolveCredentials(req.creds).clientId].client_secret]

---------------------------------------------------------------------------
\* The request that redeems the stored code c.
Redeeming(c) ==
  CodeRequest(c, GoodCredentials(authorizationCodes[c], registeredClients),
              authorizationCodes[c].redirect_uri, GoodVerifier(authorizationCodes[c]))

\* A refresh_token request presenting `token` in the name of `clientId`.
RefreshRequest(clientId, token, upstream) ==
  TokenRequest("refresh_token", Undefined, BodyClient(clientId), Undefined, Undefined,
               token, upstream)

\* The token pairs the token endpoint hands out in this state: to the
\* requests that redeem a stored code, and to those that present a refresh
\* token, whatever the upstream answers.
IssuedPairs ==
  {answer \in {TokenAnswer(Redeeming(c)) : c \in DOMAIN authorizationCodes}
              \cup {TokenAnswer(RefreshRequest(Undefined, token, up)) :
                      token \in RefreshTokenInputs, up \in RefreshResults} :
     answer.status = 200}

\* A tools/call request to /mcp bearing `token`.
BearerCall(token) ==
  [method |-> "tools/call", authorization |-> [scheme |-> "Bearer", token |-> token]]

\* C15: the kind of a token is enforced.  An access token of the server,
\* presented at the refresh_token grant, is rejected with invalid_grant; a
\* refresh token of the server, presented as a bearer token, makes
\* validateAccessToken return null, which the middleware answers with 401.
C15_TokenKind ==
  \A pair \in IssuedPairs :
    /\ decryptTokenPayload(pair.access_token).type = "access"
    /\ decryptTokenPayload(pair.refresh_token).type = "refresh"
    /\ \A cid \in {Undefined, decryptTokenPayload(pair.access_token).client_id},
          up \in RefreshResults :
         TokenAnswer(RefreshRequest(cid, pair.access_token, up))
           = Json(400, "invalid_grant", "Token is not a refresh token")
    /\ validateAccessToken(pair.refresh_token, now) = NoTokenData
    /\ authMiddleware(1, BearerCall(pair.refresh_token), now).resp
         = Json(401, "invalid_token", "Invalid or expired access token")

\* A stored code can be redeemed; each token of the pair it yields is
\* accepted where its kind belongs.
C15_PairIssued ==
  \E pair \in IssuedPairs :
    /\ \E req \in TokenRequests :
         /\ req.grant_type = "authorization_code"
         /\ TokenAnswer(req) = pair
    /\ validateAccessToken(pair.access_token, now).ok
    /\ TokenAnswer(RefreshRequest(Undefined, pair.refresh_token,
                                  [ok |-> TRUE, token |-> UpstreamRefresh])).status = 200

---------------------------------------------------------------------------
\* The refresh tokens the token endpoint hands out in this state.
IssuedRefreshTokens == {pair.refresh_token : pair \in IssuedPairs}

\* The client ids a request can name.
ClientNames == {"unknown-client"} \cup {ClientId(n) : n \in 1..MaxClients}

\* A refresh_token request whose client_id comes in the body or in a Basic
\* Authorization header.
NamedRefresh(clientId, viaBasic, token, upstream) ==
  TokenRequest("refresh_token", Undefined,
               IF viaBasic
                 THEN [client_id |-> Undefined, client_secret |-> Undefined,
                       basic |-> [present |-> TRUE, id |-> clientId, secret |-> Undefined]]
                 ELSE BodyClient(clientId),
               Undefined, Undefined, token, upstream)

\* C16: at the refresh_token grant a client_id, supplied in the body or by
\* Basic authentication, that differs from the client_id of the token makes
\* the grant fail with invalid_grant, no token being issued; when no
\* client_id is supplied the new tokens carry the client_id of the token.
C16_RefreshClientBinding ==
  \A token \in IssuedRefreshTokens, up \in RefreshResults :
    LET owner == decryptTokenPayload(token).client_id
        anonymous == TokenAnswer(RefreshRequest(Undefined, token, up))
    IN /\ \A cid \in ClientNames \ {owner}, viaBasic \in BOOLEAN :
            TokenAnswer(NamedRefresh(cid, viaBasic, token, up))
              = Json(400, "invalid_grant", "Refresh token was not issued to this client")
       /\ anonymous.status = 200
       /\ decryptTokenPayload(anonymous.access_token).client_id = owner
       /\ decryptTokenPayload(anonymous.refresh_token).client_id = owner

\* Two clients are registered and the refresh token of a redeemed code is
\* out; its owner, named in the request, is answered 200.
C16_TwoClients ==
  /\ Cardinality(DOMAIN registeredClients) = 2
  /\ \E req \in TokenRequests :
       /\ req.grant_type = "authorization_code"
       /\ TokenAnswer(req).status = 200
       /\ LET token == TokenAnswer(req).refresh_token
              owner == decryptTokenPayload(token).client_id
          IN \A viaBasic \in BOOLEAN :
               TokenAnswer(NamedRefresh(owner, viaBasic, token,
                                        [ok |-> FALSE, token |-> UpstreamRefresh])).status
                 = 200

\* C17: when the upstream refresh of a refresh_token grant succeeds, the new
\* access payload and the new refresh payload both embed the rotated upstream
\* access and refresh tokens.
C17_RotatedTokens ==
  \A token \in IssuedRefreshTokens :
    \A cid \in {Undefined, decryptTokenPayload(token).client_id} :
      LET answer == TokenAnswer(RefreshRequest(cid, token,
                                               [ok |-> TRUE, token |-> UpstreamRefresh]))
          access == decryptTokenPayload(answer.access_token)
          refresh == decryptTokenPayload(answer.refresh_token)
      IN /\ answer.status = 200
         /\ access.type = "access" /\ refresh.type = "refresh"
         /\ access.qb_access_token = UpstreamRefresh.access_token
         /\ access.qb_refresh_token = UpstreamRefresh.refresh_token
         /\ refresh.qb_access_token = UpstreamRefresh.access_token
         /\ refresh.qb_refresh_token = UpstreamRefresh.refresh_token

\* A refresh token minted from a stored code embeds the tokens of the code
\* exchange, which differ from the rotated ones.
C17_OldTokensEmbedded ==
  \E req \in TokenRequests :
    /\ req.grant_type = "authorization_code"
    /\ TokenAnswer(req).status = 200
    /\ LET payload == decryptTokenPayload(TokenAnswer(req).refresh_token) IN
         /\ payload.qb_access_token = UpstreamGrant.access_token
         /\ payload.qb_refresh_token = UpstreamGrant.refresh_token
         /\ payload.qb_access_token # UpstreamRefresh.access_token
         /\ payload.qb_refresh_token # UpstreamRefresh.refresh_token

---------------------------------------------------------------------------
\* A refresh token and an access token whose payloads expire d seconds from
\* now.
RefreshTokenExpiringIn(d) ==
  encryptTokenPayload(StatelessTokenPayload("refresh", ClientId(1), "realm-t",
                                            "qb-access-1", "qb-refresh-1",
                                            now + d - RefreshLifetime, RefreshLifetime))

AccessTokenExpiringIn(d) ==
  AccessToken(ClientId(1), "realm-1", "qb-access-1", now + d - TOKEN_EXPIRY_SECONDS)

\* C20: the expiry boundary.  A stored authorization code presented by the
\* request that redeems it, an access token and a refresh token are accepted
\* at time t when t < expires_at and rejected when t >= expires_at.
C20_ExpiryBoundary ==
  /\ \A c \in DOMAIN authorizationCodes :
       (TokenAnswer(Redeeming(c)).status = 200) <=> (now < authorizationCodes[c].expires_at)
  /\ \A d \in {-1, 0, 1} :
       /\ decryptTokenPayload(AccessTokenExpiringIn(d)).expires_at = now + d
       /\ validateAccessToken(AccessTokenExpiringIn(d), now).ok <=> (now < now + d)
       /\ decryptTokenPayload(RefreshTokenExpiringIn(d)).expires_at = now + d
       /\ \A up \in RefreshResults :
            (TokenAnswer(RefreshRequest(Undefined, RefreshTokenExpiringIn(d), up)).status
               = 200) <=> (now < now + d)

---------------------------------------------------------------------------
\* The upstream refresh throws.
UpstreamDown == [ok |-> FALSE, token |-> UpstreamRefresh]

\* The maps of the in-memory variant after its authorization_code grant gave
\* client c the first two tokens it drew, and the refresh_token request of
\* that client presenting the second.
FirstTokenData(c) ==
  TokenData(c, OpaqueToken(1), OpaqueToken(2), "realm-q", UpstreamGrant.access_token,
            UpstreamGrant.refresh_token, now)

MemoryRefreshRequest(c) ==
  TokenRequest("refresh_token", Undefined,
               [client_id |-> c, client_secret |-> registeredClients[c].client_secret,
                basic |-> NoBasic],
               Undefined, Undefined, OpaqueToken(2), UpstreamDown)

\* C18: when the upstream refresh throws during a refresh_token grant that
\* presents an otherwise valid refresh token, the handler answers 200 with a
\* new access/refresh pair whose upstream access and refresh tokens are those
\* of the token presented: embedded in both payloads in the stateless
\* variant, kept in the TokenData of both new tokens in the in-memory one.
C18_StaleFallback ==
  /\ \A token \in IssuedRefreshTokens :
       \A cid \in {Undefined, decryptTokenPayload(token).client_id} :
         LET old == decryptTokenPayload(token)
             answer == TokenAnswer(RefreshRequest(cid, token, UpstreamDown))
             access == decryptTokenPayload(answer.access_token)
             refresh == decryptTokenPayload(answer.refresh_token)
         IN /\ answer.status = 200
            /\ access.type = "access" /\ refresh.type = "refresh"
            /\ access.qb_access_token = old.qb_access_token
            /\ access.qb_refresh_token = old.qb_refresh_token
            /\ refresh.qb_access_token = old.qb_access_token
            /\ refresh.qb_refresh_token = old.qb_refresh_token
  /\ \A c \in DOMAIN registeredClients :
       LET out == MemoryRefreshGrant(MemoryRefreshRequest(c), registeredClients,
                                     OpaqueToken(1) :> FirstTokenData(c),
                                     OpaqueToken(2) :> FirstTokenData(c), 2, now)
           answer == out.resp
       IN /\ answer.status = 200
          /\ answer.access_token \notin {OpaqueToken(1), OpaqueToken(2)}
          /\ answer.refresh_token \notin {OpaqueToken(1), OpaqueToken(2)}
          /\ DOMAIN out.access = {answer.access_token}
          /\ DOMAIN out.refresh = {answer.refresh_token}
          /\ out.access[answer.access_token] = out.refresh[answer.refresh_token]
          /\ out.access[answer.access_token].qb_access_token = UpstreamGrant.access_token
          /\ out.access[answer.access_token].qb_refresh_token = UpstreamGrant.refresh_token

\* A client with a secret is registered and the refresh token of a redeemed
\* code is out, whose upstream tokens differ from those a refresh would give.
C18_UpstreamDown ==
  /\ \E c \in DOMAIN registeredClients :
       registeredClients[c].token_endpoint_auth_method # "none"
  /\ \E c \in DOMAIN authorizationCodes :
       LET answer == TokenAnswer(Redeeming(c)) IN
         /\ answer.status = 200
         /\ answer.refresh_token \in IssuedRefreshTokens
         /\ decryptTokenPayload(answer.refresh_token).qb_refresh_token
              # UpstreamRefresh.refresh_token

---------------------------------------------------------------------------
\* C19: a refresh token is not invalidated by use.  After any number of
\* refresh_token grants that presented token T and were answered 200, a
\* request presenting T before its expires_at, in the name of its client or
\* of none, is answered 200 again, whatever the upstream answers.
C19_NotInvalidatedByUse ==
  \A token \in DOMAIN grants :
    LET payload == decryptTokenPayload(token) IN
      grants[token] >= 1 /\ now < payload.expires_at =>
        \A cid \in {Undefined, payload.client_id}, up \in RefreshResults :
          TokenAnswer(RefreshRequest(cid, token, up)).status = 200

\* A refresh token was presented with success as often as the model allows,
\* time has passed since, and the token has not expired.
C19_UsedAgain ==
  \E token \in DOMAIN grants :
    /\ grants[token] = MaxRefresh
    /\ now > decryptTokenPayload(token).issued_at
    /\ now < decryptTokenPayload(token).expires_at
    /\ Cardinality(handedOut) >= 2

---------------------------------------------------------------------------
\* The payloads the codec is asked to seal: of either type, for either client,
\* with or without a realm, issued now or at 0.
Payloads ==
  {StatelessTokenPayload(type, clientId, realmId, "qb-access-1", "qb-refresh-1", t,
                         IF type = "access" THEN TOKEN_EXPIRY_SECONDS ELSE RefreshLifetime) :
     type \in {"access", "refresh"}, clientId \in {ClientId(1), ClientId(2)},
     realmId \in {"realm-q", Undefined}, t \in {0, now}}

Keys == {TOKEN_ENCRYPTION_KEY, "key-2"}
Nonces == {Nonce, "iv-2"}

\* Tokens whose tags and ciphertexts take the place of a token's own.
OtherTokens ==
  {Seal(StatelessTokenPayload("refresh", clientId, "realm-q", "qb-access-2", "qb-refresh-2",
                              0, RefreshLifetime), key, iv) :
     clientId \in {ClientId(1), ClientId(2)}, key \in Keys, iv \in Nonces}

\* A token with its nonce, its tag or its ciphertext changed: another nonce,
\* the tag or the ciphertext of another text, key or nonce.
Altered(token) ==
  {[token EXCEPT !.iv = iv] : iv \in Nonces \ {token.iv}}
  \cup {[token EXCEPT !.tag = other.tag] : other \in {t \in OtherTokens : t.tag # token.tag}}
  \cup {[token EXCEPT !.ct = other.ct] : other \in {t \in OtherTokens : t.ct # token.ct}}

\* The token cut to fewer than 32 bytes.
Truncated(token) == [token EXCEPT !.short = TRUE]

\* C21: decryptTokenPayload gives back every payload encryptTokenPayload has
\* sealed, whatever the nonce drawn, and gives null for a token sealed under
\* another key, for a token whose nonce, tag or ciphertext was altered and for
\* a token of fewer than 32 bytes; so does it for the tokens handed out.
C21_CodecRoundTrip ==
  /\ \A P \in Payloads :
       /\ decryptTokenPayload(encryptTokenPayload(P)) = P
       /\ \A iv \in Nonces :
            /\ decryptTokenPayload(Seal(P, TOKEN_ENCRYPTION_KEY, iv)) = P
            /\ \A key \in Keys \ {TOKEN_ENCRYPTION_KEY} :
                 decryptTokenPayload(Seal(P, key, iv)) = NoPayload
            /\ \A token \in Altered(Seal(P, TOKEN_ENCRYPTION_KEY, iv)) :
                 decryptTokenPayload(token) = NoPayload
            /\ decryptTokenPayload(Truncated(Seal(P, TOKEN_ENCRYPTION_KEY, iv))) = NoPayload
  /\ \A token \in handedOut :
       /\ decryptTokenPayload(token) # NoPayload
       /\ encryptTokenPayload(decryptTokenPayload(token)) = token
       /\ \A altered \in Altered(token) \cup {Truncated(token)} :
            decryptTokenPayload(altered) = NoPayload

\* The refresh grant has opened a token it had sealed itself and sealed two
\* more, after the clock moved.
C21_SealedAndOpened ==
  /\ now > 0
  /\ \E token \in handedOut :
       /\ decryptTokenPayload(token).issued_at > 0
       /\ \E used \in DOMAIN grants \cap handedOut : decryptTokenPayload(used).issued_at = 0

---------------------------------------------------------------------------
\* A body with a non-empty list of redirect URIs.
Listing(req) == req.redirect_uris.isArray /\ Len(req.redirect_uris.items) > 0

Malformed(uri) == ~ParseURL(uri).ok
LoopbackHost(uri) == ParseURL(uri).ok /\ ParseURL(uri).hostname \in {"localhost", "127.0.0.1"}
HttpsScheme(uri) == ParseURL(uri).ok /\ ParseURL(uri).protocol = "https:"
HttpScheme(uri) == ParseURL(uri).ok /\ ParseURL(uri).protocol = "http:"

\* C22: a registration listing a URI that is malformed, or that has a host
\* other than localhost/127.0.0.1 together with a scheme other than https, is
\* answered 400 invalid_redirect_uri; one whose URIs are all loopback URLs or
\* https URLs is answered 201.
C22_RedirectUriPolicy ==
  \A req \in AnyRegisterRequests :
    Listing(req) =>
      LET uris == req.redirect_uris.items
          resp == RegisterOutcome(req, registeredClients).resp
      IN /\ (\E i \in 1..Len(uris) :
               Malformed(uris[i]) \/ (~LoopbackHost(uris[i]) /\ ~HttpsScheme(uris[i])))
              => resp.status = 400 /\ resp.error = "invalid_redirect_uri"
         /\ (\A i \in 1..Len(uris) : LoopbackHost(uris[i]) \/ HttpsScheme(uris[i]))
              => resp.status = 201

\* A loopback registration and an https registration have been accepted.
C22_BothKindsRegistered ==
  /\ \E c \in DOMAIN registeredClients : registeredClients[c].redirect_uris = <<LoopbackUri>>
  /\ \E c \in DOMAIN registeredClients : registeredClients[c].redirect_uris = <<HttpsUri>>
  /\ RegisterOutcome([redirect_uris |-> [isArray |-> TRUE, items |-> <<PlainHttpUri>>],
                      token_endpoint_auth_method |-> Undefined],
                     registeredClients).resp.error = "invalid_redirect_uri"

\* C23: every redirect URI of every registered client is an HTTP URL whose host
\* is loopback or an HTTPS URL.
C23_HttpLoopbackOrHttps ==
  \A c \in DOMAIN registeredClients :
    \A i \in 1..Len(registeredClients[c].redirect_uris) :
      LET uri == registeredClients[c].redirect_uris[i]
      IN (HttpScheme(uri) /\ LoopbackHost(uri)) \/ HttpsScheme(uri)

\* C24: a ClientRegistration has a client_secret exactly when its
\* token_endpoint_auth_method is not "none", the method being "none" when the
\* body names none; so in the registry and in every 201 response.
C24_SecretIffMethod ==
  /\ \A c \in DOMAIN registeredClients :
       (registeredClients[c].client_secret # Undefined)
         <=> (registeredClients[c].token_endpoint_auth_method # "none")
  /\ \A req \in AnyRegisterRequests :
       LET out == RegisterOutcome(req, registeredClients) IN
         out.resp.status = 201 =>
           /\ (out.resp.client_secret # Undefined)
                <=> (out.resp.token_endpoint_auth_method # "none")
           /\ out.resp.token_endpoint_auth_method
                = (IF req.token_endpoint_auth_method = Undefined
                     THEN "none" ELSE req.token_endpoint_auth_method)
           /\ out.clients[out.resp.client_id].client_secret = out.resp.client_secret
           /\ out.clients[out.resp.client_id].token_endpoint_auth_method
                = out.resp.token_endpoint_auth_method

\* The registry holds a client with a secret, one that named the method "none"
\* or none at all, without.
C24_WithAndWithoutSecret ==
  /\ \E c \in DOMAIN registeredClients :
       /\ registeredClients[c].client_secret # Undefined
       /\ registeredClients[c].token_endpoint_auth_method = "client_secret_post"
  /\ \E c \in DOMAIN registeredClients :
       /\ registeredClients[c].client_secret = Undefined
       /\ registeredClients[c].token_endpoint_auth_method = "none"

\* C25: a registration whose redirect_uris is missing, not a list or empty is
\* answered 400 invalid_client_metadata, and every rejected registration, one
\* where only a later URI is invalid included, leaves the registry as it was.
C25_RejectedRegistration ==
  \A req \in AnyRegisterRequests :
    LET out == RegisterOutcome(req, registeredClients) IN
      /\ ~Listing(req)
           => out.resp.status = 400 /\ out.resp.error = "invalid_client_metadata"
      /\ out.resp.status # 201 => out.clients = registeredClients
      /\ (Listing(req) /\ \E i \in 1..Len(req.redirect_uris.items) :
                            ~(LoopbackHost(req.redirect_uris.items[i])
                              \/ HttpsScheme(req.redirect_uris.items[i])))
           => out.resp.status = 400 /\ out.clients = registeredClients

\* With a client registered, a body whose second URI only is invalid arrives.
C25_LaterUriInvalid ==
  /\ registeredClients # EmptyMap
  /\ LET out == RegisterOutcome([redirect_uris |-> [isArray |-> TRUE,
                                                    items |-> <<LoopbackUri, PlainHttpUri>>],
                                 token_endpoint_auth_method |-> "client_secret_post"],
                                registeredClients)
     IN out.resp.error = "invalid_redirect_uri" /\ out.clients = registeredClients

\* C26: no step changes or removes a ClientRegistration, and each successful
\* registration adds exactly one record, under a client_id the registry did not
\* hold.
C26_RegistryGrowsOnly ==
  [][/\ \A c \in DOMAIN registeredClients :
          c \in DOMAIN registeredClients' /\ registeredClients'[c] = registeredClients[c]
     /\ Cardinality(DOMAIN registeredClients') <= Cardinality(DOMAIN registeredClients) + 1
     /\ \A req \in RegisterRequests :
          LET out == RegisterOutcome(req, registeredClients) IN
            out.resp.status = 201 =>
              /\ out.resp.client_id \notin DOMAIN registeredClients
              /\ DOMAIN out.clients = DOMAIN registeredClients \cup {out.resp.client_id}
              /\ \A c \in DOMAIN registeredClients : out.clients[c] = registeredClients[c]]_vars

\* Two clients are registered and a flow of one of them is under way.
C26_TwoRegistered ==
  /\ Cardinality(DOMAIN registeredClients) = 2
  /\ pendingAuthorizations # EmptyMap

\* The requests whose grant_type is neither of the two, with every credential.
OtherGrantRequests ==
  {TokenRequest(grantType, Undefined, cr, Undefined, Undefined, NoToken,
                [ok |-> FALSE, token |-> UpstreamRefresh]) :
     grantType \in {Undefined, "password"},
     cr \in CredentialInputs(registeredClients)}

\* The client the credentials name is registered and, when its method is not
\* "none", the secret given is its own.
ValidClient(creds) ==
  LET cr == ResolveCredentials(creds) IN
    /\ cr.clientId \in DOMAIN registeredClients
    /\ \/ registeredClients[cr.clientId].token_endpoint_auth_method = "none"
       \/ registeredClients[cr.clientId].client_secret = cr.clientSecret

\* The maps of the in-memory variant after client-1 was given its first tokens.
MemoryTokens == Put(EmptyMap, OpaqueToken(1), FirstTokenData(ClientId(1)))
MemoryRefreshTokens == Put(EmptyMap, OpaqueToken(2), FirstTokenData(ClientId(1)))

\* C27 as stated: a POST /token whose grant_type is neither authorization_code
\* nor refresh_token is answered 400 unsupported_grant_type whatever the
\* client credentials, by the stateless and by the in-memory variant.
C27_Original ==
  \A req \in OtherGrantRequests :
    LET stateless == TokenOutcome(req, registeredClients, authorizationCodes, now)
        memory == MemoryOtherGrant(req, registeredClients, authorizationCodes,
                                   MemoryTokens, MemoryRefreshTokens)
    IN /\ stateless.resp.status = 400 /\ stateless.resp.error = "unsupported_grant_type"
       /\ memory.resp.status = 400 /\ memory.resp.error = "unsupported_grant_type"

\* C27: a POST /token whose grant_type is neither authorization_code nor
\* refresh_token changes no store; the stateless variant answers it 400
\* unsupported_grant_type whatever the client credentials, the in-memory
\* variant validates the client first and answers 401 invalid_client for an
\* unknown client or a wrong secret and 400 unsupported_grant_type otherwise.
C27_UnsupportedGrant ==
  \A req \in OtherGrantRequests :
    LET stateless == TokenOutcome(req, registeredClients, authorizationCodes, now)
        memory == MemoryOtherGrant(req, registeredClients, authorizationCodes,
                                   MemoryTokens, MemoryRefreshTokens)
    IN /\ stateless.resp.status = 400 /\ stateless.resp.error = "unsupported_grant_type"
       /\ stateless.codes = authorizationCodes
       /\ IF ValidClient(req.creds)
            THEN memory.resp.status = 400 /\ memory.resp.error = "unsupported_grant_type"
            ELSE memory.resp.status = 401 /\ memory.resp.error = "invalid_client"
       /\ memory.codes = authorizationCodes
       /\ memory.access = MemoryTokens /\ memory.refresh = MemoryRefreshTokens

\* With a code stored, requests of another grant type arrive for a client with
\* a secret: one with the secret, one with a wrong one and one of no client.
C27_OtherGrantArrives ==
  /\ authorizationCodes # EmptyMap
  /\ \E c \in DOMAIN registeredClients :
       /\ registeredClients[c].token_endpoint_auth_method # "none"
       /\ \E valid, wrong, unknown \in OtherGrantRequests :
            /\ ValidClient(valid.creds)
            /\ ResolveCredentials(valid.creds).clientId = c
            /\ ResolveCredentials(wrong.creds).clientId = c
            /\ ~ValidClient(wrong.creds)
            /\ ResolveCredentials(unknown.creds).clientId = Undefined

\* C28: every PendingAuthorization leaves the pending store in the end, the
\* one whose /callback never arrives included.
C28_PendingExpires ==
  \A i \in 1..MaxAuthorize :
    (InternalState(i) \in DOMAIN pendingAuthorizations)
      ~> (InternalState(i) \notin DOMAIN pendingAuthorizations)

\* The payload of `token` names the client and the realm.
BoundTo(token, clientId, realmId) ==
  /\ decryptTokenPayload(token).client_id = clientId
  /\ decryptTokenPayload(token).realm_id = realmId

\* C29: the client and the tenant stay bound along the chain of tokens.  The
\* two payloads minted from a code carry the client_id, the realm id and the
\* upstream tokens of the code; the payloads a refresh grant mints carry the
\* client_id and the realm id of the refresh token presented, whoever the
\* request names and whatever the upstream answers, and so do those minted
\* from them in turn.
C29_ChainBinding ==
  \A c \in DOMAIN authorizationCodes :
    LET authCode == authorizationCodes[c]
        first == TokenAnswer(Redeeming(c))
    IN first.status = 200 =>
         /\ \A token \in {first.access_token, first.refresh_token} :
              /\ BoundTo(token, authCode.client_id, authCode.realm_id)
              /\ decryptTokenPayload(token).qb_access_token = authCode.qb_access_token
              /\ decryptTokenPayload(token).qb_refresh_token = authCode.qb_refresh_token
         /\ \A cid \in {Undefined} \cup ClientNames, up \in RefreshResults :
              LET second == TokenAnswer(RefreshRequest(cid, first.refresh_token, up))
              IN second.status = 200 =>
                   /\ BoundTo(second.access_token, authCode.client_id, authCode.realm_id)
                   /\ BoundTo(second.refresh_token, authCode.client_id, authCode.realm_id)
                   /\ \A next \in RefreshResults :
                        LET third == TokenAnswer(RefreshRequest(Undefined,
                                                                second.refresh_token, next))
                        IN /\ third.status = 200
                           /\ BoundTo(third.access_token, authCode.client_id,
                                      authCode.realm_id)
                           /\ BoundTo(third.refresh_token, authCode.client_id,
                                      authCode.realm_id)

\* A code of the second client is redeemed and the refresh token it gives is
\* presented, in the client's name, while the upstream rotates its tokens.
C29_SecondClientChain ==
  \E c \in DOMAIN authorizationCodes :
    /\ authorizationCodes[c].client_id = ClientId(2)
    /\ TokenAnswer(Redeeming(c)).status = 200
    /\ TokenAnswer(RefreshRequest(ClientId(2), TokenAnswer(Redeeming(c)).refresh_token,
                                   [ok |-> TRUE, token |-> UpstreamRefresh])).status = 200

\* The instants a token issued now is presented at: at once, and at the last
\* instant before its expires_at.
Before(token) == {now, decryptTokenPayload(token).expires_at - 1}

\* C30: validation is stateless.  The refresh_token grant answers the same
\* whether it is given the registry and the code store or empty ones, and
\* leaves the code store as it is; so a token pair issued in any state is
\* accepted after all stores were emptied, the access token by
\* validateAccessToken and the refresh token by the grant, at every instant
\* before its expires_at, and no more after it.
C30_StatelessValidation ==
  \A pair \in IssuedPairs :
    /\ \A t \in Before(pair.access_token) :
         /\ validateAccessToken(pair.access_token, t).ok
         /\ validateAccessToken(pair.access_token, t).client_id
              = decryptTokenPayload(pair.access_token).client_id
    /\ ~validateAccessToken(pair.access_token,
                            decryptTokenPayload(pair.access_token).expires_at + 1).ok
    /\ \A up \in RefreshResults :
         LET req == RefreshRequest(Undefined, pair.refresh_token, up) IN
           /\ \A t \in Before(pair.refresh_token) :
                LET restarted == TokenOutcome(req, EmptyMap, EmptyMap, t)
                    running == TokenOutcome(req, registeredClients, authorizationCodes, t)
                IN /\ restarted.resp.status = 200
                   /\ restarted.resp = running.resp
                   /\ restarted.codes = EmptyMap
                   /\ running.codes = authorizationCodes
           /\ TokenOutcome(req, EmptyMap, EmptyMap,
                           decryptTokenPayload(pair.refresh_token).expires_at + 1).resp.status
                = 400

\* A code is redeemable while the registry and the code store hold entries and
\* the clock has moved: the stores a restart would empty.
C30_StoresHeld ==
  /\ now > 0
  /\ registeredClients # EmptyMap
  /\ \E c \in DOMAIN authorizationCodes : TokenAnswer(Redeeming(c)).status = 200

---------------------------------------------------------------------------
\* The answer of the refresh_token grant to `token`, and of the middleware of
\* /mcp to a tools/call bearing it.
RefreshAnswer(token) == TokenAnswer(RefreshRequest(Undefined, token, UpstreamDown))
BearerAnswer(token) == authMiddleware(1, BearerCall(token), now).resp

\* C31: no oracle.  A refresh token and a bearer token that are malformed
\* (fewer than 32 bytes), tampered (nonce, tag or ciphertext altered) or
\* expired get the same answer: same status, error and error_description.
C31_NoOracle ==
  /\ \A tampered \in Altered(RefreshTokenExpiringIn(1)) :
       /\ RefreshAnswer(Truncated(RefreshTokenExpiringIn(1))) = RefreshAnswer(tampered)
       /\ RefreshAnswer(RefreshTokenExpiringIn(-1)) = RefreshAnswer(tampered)
  /\ \A tampered \in Altered(AccessTokenExpiringIn(1)) :
       /\ BearerAnswer(Truncated(AccessTokenExpiringIn(1))) = BearerAnswer(tampered)
       /\ BearerAnswer(AccessTokenExpiringIn(-1)) = BearerAnswer(tampered)

\* The challenge a rejected request to /mcp is to carry.
Challenge ==
  {<<"WWW-Authenticate",
     "Bearer resource_metadata=\"" \o Issuer \o "/.well-known/oauth-protected-resource\"">>}

\* C32: every request to /mcp that is rejected for a missing, invalid or
\* expired bearer token is answered 401 with the WWW-Authenticate header
\* Bearer resource_metadata="<issuer>/.well-known/oauth-protected-resource";
\* so by the middleware of the stateless server and by that of the proxy.
C32_Challenge ==
  \A req \in McpRequests :
    /\ LET auth == authMiddleware(1, req, now) IN
         auth.resp # Pass => auth.resp.status = 401 /\ auth.headers = Challenge
    /\ LET auth == ProxyAuthMiddleware(1, req, "realm-1") IN
         auth.resp # Pass => auth.resp.status = 401 /\ auth.headers = Challenge

\* C33: in the in-memory variant a refresh token is redeemed at most once.
\* Of the refresh_token requests that present one refresh token, however they
\* interleave, at most one is answered with a new pair, and once one was,
\* neither that refresh token nor the access token issued with it is accepted.
C33_RefreshOnce ==
  \A token \in DOMAIN memGranted :
    /\ memGranted[token].pairs <= 1
    /\ token \notin DOMAIN memRefreshTokens
    /\ ~MemoryValidateAccessToken(memGranted[token].access_token,
                                  memAccessTokens, now).tokenData.ok

---------------------------------------------------------------------------
\* The credentials of registered client c.
OwnCredentials(c) ==
  [client_id |-> c, client_secret |-> registeredClients[c].client_secret, basic |-> NoBasic]

\* The requests that present the stored code c and fail one check: made by
\* another registered client, with another redirect_uri, or with no
\* code_verifier or one that does not verify.
FailingOwnership(c) ==
  {CodeRequest(c, OwnCredentials(other), authorizationCodes[c].redirect_uri,
               GoodVerifier(authorizationCodes[c])) :
     other \in DOMAIN registeredClients \ {authorizationCodes[c].client_id}}

FailingRedirect(c) ==
  {CodeRequest(c, GoodCredentials(authorizationCodes[c], registeredClients), ru,
               GoodVerifier(authorizationCodes[c])) :
     ru \in RedirectInputs \ {authorizationCodes[c].redirect_uri}}

FailingPkce(c) ==
  {CodeRequest(c, GoodCredentials(authorizationCodes[c], registeredClients),
               authorizationCodes[c].redirect_uri, cv) :
     cv \in {v \in VerifierInputs :
               \/ v = Undefined
               \/ IF authorizationCodes[c].code_challenge_method = "plain"
                    THEN v # authorizationCodes[c].code_challenge
                    ELSE Sha256Base64Url(v) # authorizationCodes[c].code_challenge}}

\* C34: a failed redemption does not consume the code.  A request that
\* presents a stored code and fails the client_id check, the redirect_uri check
\* or the PKCE check is answered 400 and leaves the code store as it was, so
\* that the request with the right parameters, made after it and before the
\* code expires, is answered 200.
C34_FailedRedemptionKeepsCode ==
  \A c \in DOMAIN authorizationCodes :
    \A req \in FailingOwnership(c) \cup FailingRedirect(c) \cup FailingPkce(c) :
      LET out == TokenOutcome(req, registeredClients, authorizationCodes, now) IN
        /\ out.resp.status = 400
        /\ out.codes = authorizationCodes
        /\ now < authorizationCodes[c].expires_at
             => TokenOutcome(Redeeming(c), registeredClients, out.codes, now).resp.status = 200

\* A code is stored and not expired, two clients are registered, and requests
\* failing each of the three checks present it.
C34_EachCheckFails ==
  \E c \in DOMAIN authorizationCodes :
    /\ now < authorizationCodes[c].expires_at
    /\ FailingOwnership(c) # {}
    /\ FailingRedirect(c) # {}
    /\ \E req \in FailingPkce(c) : req.code_verifier # Undefined
    /\ \E req \in FailingPkce(c) : req.code_verifier = Undefined

---------------------------------------------------------------------------
\* C35: every stored authorization code has a non-empty code_challenge, a
\* client_id of the client registry and a redirect_uri among that client's
\* registered redirect URIs; the PKCE check of the token endpoint is
\* therefore made for every stored code: it refuses a missing code_verifier.
C35_StoredCodeWellFormed ==
  \A c \in DOMAIN authorizationCodes :
    LET authCode == authorizationCodes[c] IN
      /\ ~Falsy(authCode.code_challenge)
      /\ authCode.client_id \in DOMAIN registeredClients
      /\ Includes(registeredClients[authCode.client_id].redirect_uris, authCode.redirect_uri)
      /\ PkceRejection(authCode, Undefined)
           = Json(400, "invalid_request", "code_verifier is required")

\* A code is stored while two clients are registered, its client having
\* registered its redirect_uri.
C35_CodeStoredAmongTwoClients ==
  \E c \in DOMAIN authorizationCodes :
    /\ Cardinality(DOMAIN registeredClients) = 2
    /\ authorizationCodes[c].client_id \in DOMAIN registeredClients
    /\ authorizationCodes[c].code_challenge # Undefined

---------------------------------------------------------------------------
\* `req` presents the stored code c and passes the client_id, the
\* redirect_uri and the PKCE check.
PassesChecks(req, c) ==
  LET authCode == authorizationCodes[c] IN
    /\ req.grant_type = "authorization_code"
    /\ req.code = c
    /\ ClientRejection(ResolveCredentials(req.creds).clientId,
                       ResolveCredentials(req.creds).clientSecret, registeredClients) = Pass
    /\ ResolveCredentials(req.creds).clientId = authCode.client_id
    /\ req.redirect_uri = authCode.redirect_uri
    /\ ~Falsy(req.code_verifier)
    /\ verifyCodeChallenge(req.code_verifier, authCode.code_challenge,
                           authCode.code_challenge_method)

\* The step is the handling of a request that passes the checks on c and is
\* answered 200, or with the expiry of c when c has expired.
LeavesThroughToken(c) ==
  \E req \in TokenRequests :
    LET out == TokenOutcome(req, registeredClients, authorizationCodes, now) IN
      /\ PassesChecks(req, c)
      /\ authorizationCodes' = out.codes
      /\ IF now > authorizationCodes[c].expires_at
           THEN out.resp = Json(400, "invalid_grant", "Authorization code has expired")
           ELSE out.resp.status = 200

\* C36: a code leaves the store only in a POST /token that presents it and
\* passes the client_id, redirect_uri and PKCE checks, being redeemed or, when
\* it has expired, deleted; every other step keeps every stored code, however
\* long ago it expired.  Expiry is checked last: an expired code presented
\* with a wrong code_verifier is answered invalid_grant "Invalid
\* code_verifier" and stays in the store.
C36_LeavesOnlyWhenPresented ==
  /\ [] (\A c \in DOMAIN authorizationCodes :
           now > authorizationCodes[c].expires_at =>
             \A req \in {r \in FailingPkce(c) : r.code_verifier # Undefined} :
               LET out == TokenOutcome(req, registeredClients, authorizationCodes, now) IN
                 /\ out.resp = Json(400, "invalid_grant", "Invalid code_verifier")
                 /\ out.codes = authorizationCodes)
  /\ [][\A c \in DOMAIN authorizationCodes :
          \/ /\ c \in DOMAIN authorizationCodes'
             /\ authorizationCodes'[c] = authorizationCodes[c]
          \/ LeavesThroughToken(c)]_vars

\* A code that expired is still stored, and a request presents it with a
\* wrong code_verifier.
C36_ExpiredCodeStored ==
  \E c \in DOMAIN authorizationCodes :
    /\ now > authorizationCodes[c].expires_at
    /\ \E req \in FailingPkce(c) : req.code_verifier # Undefined

---------------------------------------------------------------------------
\* C37: /authorize accepts every code_challenge_method and stores it as it
\* came (S256 when there is none); and for every stored code whose method is
\* not exactly 'plain', whatever it is, a request of its client with its
\* redirect_uri before its expiry is answered 200 exactly when the
\* base64url SHA-256 of its code_verifier is the stored challenge.
C37_MethodNotValidated ==
  /\ \A req \in AnyMethodAuthorizeRequests :
       LET out == AuthorizeOutcome(req, registeredClients, pendingAuthorizations, nStates)
       IN /\ out.ok
          /\ out.pending[InternalState(nStates + 1)].code_challenge_method
               = IF req.code_challenge_method = Undefined
                   THEN "S256" ELSE req.code_challenge_method
  /\ \A c \in DOMAIN authorizationCodes :
       /\ ~Expired(now, authorizationCodes[c].expires_at)
       /\ authorizationCodes[c].code_challenge_method # "plain"
       =>
         \A v \in Verifiers :
           TokenOutcome(Redeem(c, v), registeredClients, authorizationCodes, now).resp.status = 200
             <=> Sha256Base64Url(v) = authorizationCodes[c].code_challenge

\* An unexpired code is stored whose method is neither 'plain' nor S256.
C37_UnknownMethodStored ==
  \E c \in DOMAIN authorizationCodes :
    /\ ~Expired(now, authorizationCodes[c].expires_at)
    /\ authorizationCodes[c].code_challenge_method \notin {"plain", "S256"}

---------------------------------------------------------------------------
\* The request of the transparent-proxy variant that redeems the stored code c.
ProxyRedeeming(c) ==
  ProxyRequest("authorization_code", c,
               GoodCredentials(authorizationCodes[c], registeredClients),
               authorizationCodes[c].redirect_uri, GoodVerifier(authorizationCodes[c]),
               Undefined, CHOOSE upstream \in ProxyUpstreams : TRUE)

ProxyAnswer(req) ==
  ProxyTokenOutcome(req, registeredClients, authorizationCodes, now).resp

\* C38: in the transparent-proxy variant, the access_token and refresh_token
\* of a successful authorization_code grant are the qb_access_token and
\* qb_refresh_token of the redeemed code; and a refresh_token grant asks the
\* upstream about the token of the request, whoever the client says it is:
\* its answer is the one given with no credentials and an empty client
\* registry, 200 with the upstream's new tokens when the upstream accepts the
\* token and 400 invalid_grant when it does not.
C38_TransparentTokens ==
  /\ \A c \in DOMAIN authorizationCodes :
       ~Expired(now, authorizationCodes[c].expires_at) =>
         /\ ProxyAnswer(ProxyRedeeming(c)).status = 200
         /\ ProxyAnswer(ProxyRedeeming(c)).access_token = authorizationCodes[c].qb_access_token
         /\ ProxyAnswer(ProxyRedeeming(c)).refresh_token = authorizationCodes[c].qb_refresh_token
  /\ \A req \in ProxyRefreshRequests :
       /\ ProxyAnswer(req)
            = ProxyTokenOutcome([req EXCEPT !.creds = BodyClient(Undefined)], EmptyMap,
                                EmptyMap, now).resp
       /\ ~Falsy(req.refresh_token) =>
            IF req.upstream[req.refresh_token].ok
              THEN /\ ProxyAnswer(req).status = 200
                   /\ ProxyAnswer(req).access_token
                        = req.upstream[req.refresh_token].token.access_token
                   /\ ProxyAnswer(req).refresh_token
                        = req.upstream[req.refresh_token].token.refresh_token
              ELSE ProxyAnswer(req) = Json(400, "invalid_grant", "Failed to refresh token")

\* A code holding the upstream's tokens is stored and not expired, and the
\* refresh token it holds is one the upstream may accept or refuse.
C38_CodeAndRefreshPresented ==
  \E c \in DOMAIN authorizationCodes :
    /\ ~Expired(now, authorizationCodes[c].expires_at)
    /\ authorizationCodes[c].qb_refresh_token \in ProxyRefreshInputs
    /\ \E up, down \in ProxyUpstreams :
         /\ up[authorizationCodes[c].qb_refresh_token].ok
         /\ ~down[authorizationCodes[c].qb_refresh_token].ok

====
